---- MODULE Spec2Model ----
(***************************************************************************)
(* flex-rate-limit: the limiting engine (RateLimiter), its two stores      *)
(* (MemoryStore, RedisStore over a Redis client) and the four counting     *)
(* algorithms, as a state machine.                                         *)
(*                                                                         *)
(* JavaScript values are modelled as records: an object is a record whose  *)
(* DOMAIN is the set of its own properties, undefined/null is Undefined,   *)
(* a bare number (JSON.parse of a Redis counter) is [num |-> n].           *)
(*                                                                         *)
(* Numbers that can be fractional in the code (tokens, water, count,       *)
(* current, remaining, limit) are fixed-point with denominator windowMs:   *)
(* the value v is stored as v * windowMs (see Fx).  With refillRate and    *)
(* leakRate at their default 1 this is exact: one millisecond refills      *)
(* 1/windowMs token.  Times (timestamps, resetTime, retryAfter) are whole  *)
(* milliseconds.                                                           *)
(***************************************************************************)
EXTENDS Integers, Sequences, FiniteSets, TLC

VARIABLES
  cfg,     \* the RateLimiter's options (this.options) and the callers' keys
  now,     \* Date.now()
  mem,     \* MemoryStore.store : Map key -> value
  timers,  \* MemoryStore.timers: Map key -> timer handle (its due time)
  sched,   \* the runtime's pending setTimeout callbacks: set of [key, due]
  db,      \* the Redis server's keyspace: fullKey -> [type, val, exp]
  last,    \* the most recent operation and what it returned
  hist,    \* log of the check calls made so far (SpecWin only)
  calls    \* the calls in flight, each suspended at one of its awaits

vars == <<cfg, now, mem, timers, sched, db, last, hist, calls>>

----------------------------------------------------------------------------
(* Bounds of the model *)

MaxTime == 5      \* the clock stops advancing here
MaxDelay == 1     \* ms that may pass inside one check call
MaxHist == 3      \* check calls logged in hist
MaxCount == 3     \* observations one record may hold before checks on its key stop
MaxCalls == 3     \* calls made in all when calls may overlap
MaxRequests == 6  \* requests one client makes to a route of the examples

(* Program constants *)

DefaultWindowMs == 60000
DefaultMax == 100
DefaultCapacity == 10
DefaultRate == 1
MsPerSec == 1000
StrictWindowMs == 900000
StrictMax == 5

----------------------------------------------------------------------------
(* JavaScript values *)

Undefined == [undef |-> TRUE]
Num(n) == [num |-> n]
Fn == [function |-> TRUE]

HasField(d, f) == f \in DOMAIN d
IsUndef(v) == HasField(v, "undef")
IsNum(v) == HasField(v, "num")
IsFn(v) == HasField(v, "function")
\* !v for the values the stores hold: undefined, null and 0 are falsy
Falsy(v) == IsUndef(v) \/ (IsNum(v) /\ v.num = 0)
SetField(d, f, v) == [g \in (DOMAIN d) \cup {f} |-> IF g = f THEN v ELSE d[g]]

\* Map operations
EmptyMap == [g \in {} |-> Undefined]
MapPut(mp, k, v) == [g \in (DOMAIN mp) \cup {k} |-> IF g = k THEN v ELSE mp[g]]
MapDel(mp, k) == [g \in (DOMAIN mp) \ {k} |-> mp[g]]
MapGet(mp, k) == IF k \in DOMAIN mp THEN mp[k] ELSE Undefined

Max2(a, b) == IF a >= b THEN a ELSE b
Min2(a, b) == IF a <= b THEN a ELSE b
\* Math.ceil(a / b) for a >= 0, b > 0
CeilDiv(a, b) == (a + b - 1) \div b

\* fixed-point image of the number n (see the header)
Fx(n) == n * cfg.windowMs

\* results of a store call: the store after it, what it returned, what it threw
Ok(S, v) == [S |-> S, ret |-> v, err |-> ""]
Fail(S, msg) == [S |-> S, ret |-> Undefined, err |-> msg]

----------------------------------------------------------------------------
(* MemoryStore.  S is [mem, timers, sched, db]; t is the time of the call. *)

MemoryStore_get(S, key) == MapGet(S.mem, key)

\* clearTimeout(this.timers.get(key)) when the map has the key
ClearTimer(S, key) ==
  IF key \in DOMAIN S.timers
  THEN S.sched \ {[key |-> key, due |-> S.timers[key]]}
  ELSE S.sched

\* MemoryStore_set without the clearTimeout of the key's pending timer
MemoryStore_set_noClear(S, key, value, ttl, t) ==
  IF ttl > 0
  THEN [S EXCEPT !.mem = MapPut(S.mem, key, value),
                 !.sched = S.sched \cup {[key |-> key, due |-> t + ttl]},
                 !.timers = MapPut(S.timers, key, t + ttl)]
  ELSE [S EXCEPT !.mem = MapPut(S.mem, key, value)]

MemoryStore_set(S, key, value, ttl, t) ==
  LET cleared == ClearTimer(S, key)
  IN IF ttl > 0
     THEN [S EXCEPT !.mem = MapPut(S.mem, key, value),
                    !.sched = cleared \cup {[key |-> key, due |-> t + ttl]},
                    !.timers = MapPut(S.timers, key, t + ttl)]
     ELSE [S EXCEPT !.mem = MapPut(S.mem, key, value),
                    !.sched = cleared]

\* timestamp = 0 stands for "no timestamp" (both are falsy in the code)
MemoryStore_increment(S, key, windowMs, timestamp, t) ==
  LET data == MapGet(S.mem, key)
  IN IF Falsy(data)
     THEN LET value == IF timestamp # 0 THEN [requests |-> <<timestamp>>]
                                        ELSE [count |-> 1]
          IN Ok(MemoryStore_set(S, key, value, windowMs, t), Num(1))
     ELSE IF timestamp # 0
     THEN LET reqs == Append(IF HasField(data, "requests") THEN data.requests ELSE <<>>,
                             timestamp)
              d2 == SetField(data, "requests", reqs)
          IN Ok(MemoryStore_set(S, key, d2, windowMs, t), Num(Len(reqs)))
     ELSE LET c == (IF HasField(data, "count") THEN data.count ELSE 0) + 1
              d2 == SetField(data, "count", c)
          IN Ok(MemoryStore_set(S, key, d2, windowMs, t), Num(c))

MemoryStore_decrement(S, key) ==
  LET data == MapGet(S.mem, key)
  IN IF Falsy(data) THEN S
     ELSE IF HasField(data, "count")
     THEN [S EXCEPT !.mem = MapPut(S.mem, key,
                                   SetField(data, "count", Max2(0, data.count - 1)))]
     ELSE IF HasField(data, "requests") /\ Len(data.requests) > 0
     THEN [S EXCEPT !.mem = MapPut(S.mem, key,
              SetField(data, "requests", SubSeq(data.requests, 1, Len(data.requests) - 1)))]
     ELSE S

\* MemoryStore_reset without the clearTimeout
MemoryStore_reset_noClear(S, key) ==
  [S EXCEPT !.mem = MapDel(S.mem, key),
            !.timers = MapDel(S.timers, key)]

MemoryStore_reset(S, key) ==
  [S EXCEPT !.mem = MapDel(S.mem, key),
            !.sched = ClearTimer(S, key),
            !.timers = MapDel(S.timers, key)]

\* MemoryStore_resetAll that clears the timers but not the records
MemoryStore_resetAll_timersOnly(S) ==
  [S EXCEPT !.sched = S.sched \ {[key |-> k, due |-> S.timers[k]] : k \in DOMAIN S.timers},
            !.timers = EmptyMap]

MemoryStore_resetAll(S) ==
  [S EXCEPT !.mem = EmptyMap,
            !.sched = S.sched \ {[key |-> k, due |-> S.timers[k]] : k \in DOMAIN S.timers},
            !.timers = EmptyMap]

\* the callback of the setTimeout in set()
TimerCallback(S, tm) ==
  [S EXCEPT !.mem = MapDel(S.mem, tm.key),
            !.timers = MapDel(S.timers, tm.key),
            !.sched = S.sched \ {tm}]

----------------------------------------------------------------------------
(* The Redis server behind RedisStore.client.  An entry is                 *)
(* [type, val, exp]: a string holds [int |-> n] (a counter) or             *)
(* [json |-> v] (JSON text); a zset holds its scores in ascending order    *)
(* (the members are made unique by their random suffix); exp is the time   *)
(* the key expires at, or NoExp.  A command returns [db, ret, err].        *)

NoExp == -1
Live(d, k, t) == k \in DOMAIN d /\ (d[k].exp = NoExp \/ t < d[k].exp)
CRet(d, v) == [db |-> d, ret |-> v, err |-> ""]
CErr(d, msg) == [db |-> d, ret |-> Undefined, err |-> msg]
WrongType == "WRONGTYPE"

\* s with the score x inserted in order
RECURSIVE InsertSorted(_, _)
InsertSorted(s, x) ==
  IF s = <<>> THEN <<x>>
  ELSE IF x < Head(s) THEN <<x>> \o s
  ELSE <<Head(s)>> \o InsertSorted(Tail(s), x)

Client_get(d, k, t) ==
  IF ~Live(d, k, t) THEN CRet(d, Undefined)
  ELSE IF d[k].type # "string" THEN CErr(d, WrongType)
  ELSE CRet(d, d[k].val)

Client_setex(d, k, secs, text, t) ==
  CRet(MapPut(d, k, [type |-> "string", val |-> text, exp |-> t + secs * MsPerSec]), Undefined)

Client_incr(d, k, t) ==
  IF ~Live(d, k, t)
  THEN CRet(MapPut(d, k, [type |-> "string", val |-> [int |-> 1], exp |-> NoExp]), Num(1))
  ELSE IF d[k].type # "string" THEN CErr(d, WrongType)
  ELSE IF ~HasField(d[k].val, "int") THEN CErr(d, "ERR value is not an integer")
  ELSE CRet(MapPut(d, k, [d[k] EXCEPT !.val = [int |-> d[k].val.int + 1]]),
            Num(d[k].val.int + 1))

Client_decr(d, k, t) ==
  IF ~Live(d, k, t)
  THEN CRet(MapPut(d, k, [type |-> "string", val |-> [int |-> -1], exp |-> NoExp]), Num(-1))
  ELSE IF d[k].type # "string" THEN CErr(d, WrongType)
  ELSE IF ~HasField(d[k].val, "int") THEN CErr(d, "ERR value is not an integer")
  ELSE CRet(MapPut(d, k, [d[k] EXCEPT !.val = [int |-> d[k].val.int - 1]]),
            Num(d[k].val.int - 1))

Client_expire(d, k, secs, t) ==
  IF Live(d, k, t)
  THEN CRet(MapPut(d, k, [d[k] EXCEPT !.exp = t + secs * MsPerSec]), Num(1))
  ELSE CRet(d, Num(0))

Client_del(d, k) == CRet(MapDel(d, k), Undefined)

Client_type(d, k, t) == IF Live(d, k, t) THEN d[k].type ELSE "none"

\* ZREMRANGEBYSCORE k -inf hi: an emptied zset is removed
Client_zremrangebyscore(d, k, hi, t) ==
  IF ~Live(d, k, t) THEN CRet(d, Num(0))
  ELSE IF d[k].type # "zset" THEN CErr(d, WrongType)
  ELSE LET kept == SelectSeq(d[k].val, LAMBDA sc: sc > hi)
       IN IF kept = <<>> THEN CRet(MapDel(d, k), Undefined)
          ELSE CRet(MapPut(d, k, [d[k] EXCEPT !.val = kept]), Undefined)

Client_zadd(d, k, score, t) ==
  IF ~Live(d, k, t)
  THEN CRet(MapPut(d, k, [type |-> "zset", val |-> <<score>>, exp |-> NoExp]), Num(1))
  ELSE IF d[k].type # "zset" THEN CErr(d, WrongType)
  ELSE CRet(MapPut(d, k, [d[k] EXCEPT !.val = InsertSorted(d[k].val, score)]), Num(1))

Client_zcard(d, k, t) ==
  IF ~Live(d, k, t) THEN CRet(d, Num(0))
  ELSE IF d[k].type # "zset" THEN CErr(d, WrongType)
  ELSE CRet(d, Num(Len(d[k].val)))

Client_zpopmax(d, k, t) ==
  IF ~Live(d, k, t) THEN CRet(d, Undefined)
  ELSE IF d[k].type # "zset" THEN CErr(d, WrongType)
  ELSE IF Len(d[k].val) = 1 THEN CRet(MapDel(d, k), Undefined)
  ELSE CRet(MapPut(d, k, [d[k] EXCEPT !.val = SubSeq(d[k].val, 1, Len(d[k].val) - 1)]),
            Undefined)

----------------------------------------------------------------------------
(* RedisStore.  fail: the client's command for this call rejects (network  *)
(* fault); when it does, it is the first command of the method that fails. *)

Prefix == "rl:"
DefaultExpiry == 3600
RedisStore_getKey(key) == Prefix \o key
ScoresKey(fullKey) == fullKey \o ":scores"

\* JSON.stringify / JSON.parse: a number's text is a counter's text
Stringify(v) == IF IsNum(v) THEN [int |-> v.num] ELSE [json |-> v]
Parse(text) == IF HasField(text, "int") THEN Num(text.int) ELSE text.json

\* every fault is caught: get answers null
RedisStore_get(S, key, t, fail) ==
  LET r == Client_get(S.db, RedisStore_getKey(key), t)
  IN IF fail \/ r.err # "" THEN Ok(S, Undefined)
     ELSE IF IsUndef(r.ret) THEN Ok(S, Undefined)
     ELSE Ok(S, Parse(r.ret))

RedisStore_set(S, key, value, ttl, t, fail) ==
  LET expiry == IF ttl > 0 THEN CeilDiv(ttl, MsPerSec) ELSE DefaultExpiry
      r == Client_setex(S.db, RedisStore_getKey(key), expiry, Stringify(value), t)
  IN IF fail THEN Fail(S, "set failed") ELSE Ok([S EXCEPT !.db = r.db], Undefined)

RedisStore_increment(S, key, windowMs, timestamp, t, fail) ==
  LET fullKey == RedisStore_getKey(key)
  IN IF fail THEN Fail(S, "increment failed")
     ELSE IF timestamp # 0
     THEN LET scoreKey == ScoresKey(fullKey)
              r1 == Client_zremrangebyscore(S.db, scoreKey, t - windowMs, t)
              r2 == Client_zadd(r1.db, scoreKey, timestamp, t)
              r3 == Client_expire(r2.db, scoreKey, CeilDiv(windowMs, MsPerSec) + 1, t)
              r4 == Client_zcard(r3.db, scoreKey, t)
          IN IF r1.err # "" THEN Fail(S, r1.err)
             ELSE IF r2.err # "" THEN Fail([S EXCEPT !.db = r1.db], r2.err)
             ELSE Ok([S EXCEPT !.db = r4.db], r4.ret)
     ELSE LET r1 == Client_incr(S.db, fullKey, t)
              r2 == IF r1.ret = Num(1) /\ windowMs > 0
                    THEN Client_expire(r1.db, fullKey, CeilDiv(windowMs, MsPerSec), t)
                    ELSE r1
          IN IF r1.err # "" THEN Fail(S, r1.err)
             ELSE Ok([S EXCEPT !.db = r2.db], r1.ret)

\* every fault is caught and logged
RedisStore_decrement(S, key, t) ==
  LET fullKey == RedisStore_getKey(key)
  IN IF Client_type(S.db, fullKey, t) = "zset"
     THEN LET r == Client_zpopmax(S.db, ScoresKey(fullKey), t)
          IN IF r.err # "" THEN S ELSE [S EXCEPT !.db = r.db]
     ELSE LET g == Client_get(S.db, fullKey, t)
          IN IF g.err = "" /\ ~IsUndef(g.ret) /\ HasField(g.ret, "int") /\ g.ret.int > 0
             THEN [S EXCEPT !.db = Client_decr(S.db, fullKey, t).db]
             ELSE S

RedisStore_reset(S, key, fail) ==
  LET fullKey == RedisStore_getKey(key)
  IN IF fail THEN Fail(S, "reset failed")
     ELSE Ok([S EXCEPT !.db = Client_del(Client_del(S.db, fullKey).db, ScoresKey(fullKey)).db],
             Undefined)

\* KEYS rl:* and DEL of what it lists: every key of db carries the prefix
RedisStore_resetAll(S, fail) ==
  IF fail THEN Fail(S, "resetAll failed") ELSE Ok([S EXCEPT !.db = EmptyMap], Undefined)

----------------------------------------------------------------------------
(* The store the Limiter was built with (this.store).  cfg.store is        *)
(* "memory" (MemoryStore), "redis" (RedisStore) or "custom": an object     *)
(* supplied by the caller, which keeps its data as MemoryStore does and    *)
(* whose methods may throw.  fault names the store method (or "max", the   *)
(* quota function) that fails during the current call.                     *)

Store_get(S, key, t, fault) ==
  IF cfg.store = "redis" THEN RedisStore_get(S, key, t, fault = "get")
  ELSE IF cfg.store = "custom" /\ fault = "get" THEN Fail(S, "get failed")
  ELSE Ok(S, MemoryStore_get(S, key))

Store_set(S, key, value, ttl, t, fault) ==
  IF cfg.store = "redis" THEN RedisStore_set(S, key, value, ttl, t, fault = "set")
  ELSE IF cfg.store = "custom" /\ fault = "set" THEN Fail(S, "set failed")
  ELSE Ok(MemoryStore_set(S, key, value, ttl, t), Undefined)

Store_increment(S, key, windowMs, timestamp, t, fault) ==
  IF cfg.store = "redis"
  THEN RedisStore_increment(S, key, windowMs, timestamp, t, fault = "increment")
  ELSE IF cfg.store = "custom" /\ fault = "increment" THEN Fail(S, "increment failed")
  ELSE MemoryStore_increment(S, key, windowMs, timestamp, t)

Store_reset(S, key, fault) ==
  IF cfg.store = "redis" THEN RedisStore_reset(S, key, fault = "reset")
  ELSE IF cfg.store = "custom" /\ fault = "reset" THEN Fail(S, "reset failed")
  ELSE Ok(MemoryStore_reset(S, key), Undefined)

Store_resetAll(S, fault) ==
  IF cfg.store = "redis" THEN RedisStore_resetAll(S, fault = "reset")
  ELSE IF cfg.store = "custom" /\ fault = "reset" THEN Fail(S, "resetAll failed")
  ELSE Ok(MemoryStore_resetAll(S), Undefined)

----------------------------------------------------------------------------
(* The algorithms: check(store, key, options) at time t (its Date.now()).  *)
(* A result is [S, err, count, resetTime] plus two observations of the     *)
(* run: over (the over-limit branch was taken) and capacity (the capacity  *)
(* the algorithm computed with, 0 for the window algorithms).  count is    *)
(* fixed-point.  opts are the options of the check call, spread into the   *)
(* algorithm's options: opts.capacity = 0 stands for "not given".          *)

AlgOk(S, count, resetTime, over, capacity) ==
  [S |-> S, err |-> "", count |-> count, resetTime |-> resetTime,
   over |-> over, capacity |-> capacity]
AlgFail(r) ==
  [S |-> r.S, err |-> r.err, count |-> 0, resetTime |-> 0, over |-> FALSE, capacity |-> 0]

\* after the await of store.increment / store.set: the result, or the fault
AlgAfterWrite(w, count, resetTime, capacity) ==
  IF w.err # "" THEN AlgFail(w) ELSE AlgOk(w.S, count, resetTime, FALSE, capacity)

\* SlidingWindow_pushed with a window one millisecond too short
SlidingWindow_pushed_short(data, windowStart, t) ==
  Append(SelectSeq(data.requests, LAMBDA ts: ts > windowStart + 1), t)

\* the timestamps of data.requests still inside the window, then now
SlidingWindow_pushed(data, windowStart, t) ==
  Append(SelectSeq(data.requests, LAMBDA ts: ts > windowStart), t)

SlidingWindow_write(S, key, pushed, t, fault) ==
  AlgAfterWrite(Store_set(S, key, [requests |-> pushed], cfg.windowMs, t, fault),
                Fx(Len(pushed)),
                (IF pushed[1] # 0 THEN pushed[1] ELSE t) + cfg.windowMs,
                0)

\* after the await of store.get
SlidingWindow_afterGet(g, key, t, fault) ==
  IF g.err # "" THEN AlgFail(g)
  ELSE IF Falsy(g.ret) \/ ~HasField(g.ret, "requests")
  THEN AlgAfterWrite(Store_increment(g.S, key, cfg.windowMs, t, t, fault),
                     Fx(1), t + cfg.windowMs, 0)
  ELSE SlidingWindow_write(g.S, key,
                           SlidingWindow_pushed(g.ret, t - cfg.windowMs, t), t, fault)

SlidingWindow_check(S, key, opts, t, fault) ==
  SlidingWindow_afterGet(Store_get(S, key, t, fault), key, t, fault)

\* FixedWindow_key without the window index: one counter for all windows
FixedWindow_key_noIndex(key, t) == key

\* FixedWindow_key with a window index that changes every millisecond
FixedWindow_key_perMs(key, t) == key \o ":" \o ToString(t)

FixedWindow_key(key, t) == key \o ":" \o ToString(t \div cfg.windowMs)

FixedWindow_afterIncrement(r, windowKey) ==
  IF r.err # "" THEN AlgFail(r)
  ELSE AlgOk(r.S, Fx(r.ret.num), (windowKey + 1) * cfg.windowMs, FALSE, 0)

FixedWindow_check(S, key, opts, t, fault) ==
  FixedWindow_afterIncrement(
    Store_increment(S, FixedWindow_key(key, t), cfg.windowMs, 0, t, fault),
    t \div cfg.windowMs)

\* the capacity the bucket algorithms destructure from their options
OptCapacity(opts) == IF opts.capacity # 0 THEN opts.capacity ELSE DefaultCapacity

\* TokenBucket_refill without the cap at capacity
TokenBucket_refill_uncapped(data, capacity, refillRate, t) ==
  IF Falsy(data) THEN Fx(capacity)
  ELSE data.tokens + (t - data.lastRefill) * refillRate

\* tokens after the refill for the time passed since data.lastRefill
TokenBucket_refill(data, capacity, refillRate, t) ==
  IF Falsy(data) THEN Fx(capacity)
  ELSE Min2(Fx(capacity), data.tokens + (t - data.lastRefill) * refillRate)

\* TokenBucket_consume that needs more than one token to admit
TokenBucket_consume_strict(S, key, tokens, capacity, refillRate, t, fault) ==
  IF tokens > Fx(1)
  THEN AlgAfterWrite(
         Store_set(S, key, [tokens |-> tokens - Fx(1), lastRefill |-> t],
                   cfg.windowMs * capacity, t, fault),
         Fx(capacity) - (tokens - Fx(1)),
         t + cfg.windowMs \div refillRate,
         capacity)
  ELSE AlgOk(S, Fx(capacity + 1), t + (Fx(1) - tokens) \div refillRate, TRUE, capacity)

TokenBucket_consume(S, key, tokens, capacity, refillRate, t, fault) ==
  IF tokens >= Fx(1)
  THEN AlgAfterWrite(
         Store_set(S, key, [tokens |-> tokens - Fx(1), lastRefill |-> t],
                   cfg.windowMs * capacity, t, fault),
         Fx(capacity) - (tokens - Fx(1)),
         t + cfg.windowMs \div refillRate,
         capacity)
  ELSE AlgOk(S, Fx(capacity + 1), t + (Fx(1) - tokens) \div refillRate, TRUE, capacity)

TokenBucket_afterGet(g, key, capacity, refillRate, t, fault) ==
  IF g.err # "" THEN AlgFail(g)
  ELSE TokenBucket_consume(g.S, key, TokenBucket_refill(g.ret, capacity, refillRate, t),
                           capacity, refillRate, t, fault)

TokenBucket_check(S, key, opts, t, fault) ==
  TokenBucket_afterGet(Store_get(S, key, t, fault), key,
                       OptCapacity(opts), DefaultRate, t, fault)

\* water left after the leak for the time passed since data.lastLeak
LeakyBucket_leak(data, leakRate, t) ==
  IF Falsy(data) THEN 0
  ELSE Max2(0, data.water - (t - data.lastLeak) * leakRate)

LeakyBucket_add(S, key, water, capacity, leakRate, t, fault) ==
  IF water < Fx(capacity)
  THEN AlgAfterWrite(
         Store_set(S, key, [water |-> water + Fx(1), lastLeak |-> t],
                   cfg.windowMs * capacity, t, fault),
         water + Fx(1),
         t + (water + Fx(1)) \div leakRate,
         capacity)
  ELSE AlgOk(S, Fx(capacity + 1),
             t + (water - Fx(capacity) + Fx(1)) \div leakRate, TRUE, capacity)

LeakyBucket_afterGet(g, key, capacity, leakRate, t, fault) ==
  IF g.err # "" THEN AlgFail(g)
  ELSE LeakyBucket_add(g.S, key, LeakyBucket_leak(g.ret, leakRate, t),
                       capacity, leakRate, t, fault)

LeakyBucket_check(S, key, opts, t, fault) ==
  LeakyBucket_afterGet(Store_get(S, key, t, fault), key,
                       OptCapacity(opts), DefaultRate, t, fault)

\* this.algorithm.check: the module _initializeAlgorithm picked
Algorithm_check(S, key, opts, t, fault) ==
  CASE cfg.algorithm = "sliding-window" -> SlidingWindow_check(S, key, opts, t, fault)
    [] cfg.algorithm = "fixed-window" -> FixedWindow_check(S, key, opts, t, fault)
    [] cfg.algorithm = "token-bucket" -> TokenBucket_check(S, key, opts, t, fault)
    [] cfg.algorithm = "leaky-bucket" -> LeakyBucket_check(S, key, opts, t, fault)

----------------------------------------------------------------------------
(* RateLimiter *)

\* what an operation that returns no Decision leaves in last.dec
NoDecision == [none |-> TRUE]

\* the quota function of the configuration: max is a function of the request
MaxFn(req) == IF req.isPremium THEN cfg.max.premium ELSE cfg.max.basic

\* max of one check call: [err, val], val a whole number
ResolveMax(opts, fault) ==
  IF IsFn(cfg.max)
  THEN IF fault = "max" THEN [err |-> "max failed", val |-> 0]
       ELSE [err |-> "", val |-> MaxFn(opts.req)]
  ELSE [err |-> "", val |-> cfg.max.num]

\* the Decision of the catch block; t2 is its Date.now()
FailOpen(message, t2) ==
  [allowed |-> TRUE,
   limit |-> IF IsFn(cfg.max) THEN Fn ELSE Num(Fx(cfg.max.num)),
   current |-> 0,
   remaining |-> IF IsFn(cfg.max) THEN Fn ELSE Num(Fx(cfg.max.num)),
   resetTime |-> t2 + cfg.windowMs,
   retryAfter |-> 0,
   error |-> message]

\* Decide with the comparison of allowed off by one
Decide_strict(result, max, t2) ==
  [allowed |-> result.count < Fx(max),
   limit |-> Num(Fx(max)),
   current |-> result.count,
   remaining |-> Num(Max2(0, Fx(max) - result.count)),
   resetTime |-> result.resetTime,
   retryAfter |-> IF result.count > Fx(max) THEN result.resetTime - t2 ELSE 0,
   error |-> ""]

\* the Decision of the try block; t2 is the Date.now() of retryAfter
Decide(result, max, t2) ==
  [allowed |-> result.count <= Fx(max),
   limit |-> Num(Fx(max)),
   current |-> result.count,
   remaining |-> Num(Max2(0, Fx(max) - result.count)),
   resetTime |-> result.resetTime,
   retryAfter |-> IF result.count > Fx(max) THEN result.resetTime - t2 ELSE 0,
   error |-> ""]

\* RateLimiter_outcome with the quota function called before the try block:
\* its fault leaves check as a rejection
RateLimiter_outcome_maxOutsideTry(S, m, result, t2) ==
  IF m.err # ""
  THEN [S |-> S, dec |-> NoDecision, over |-> FALSE, capacity |-> 0, quota |-> 0,
        raised |-> m.err, threw |-> m.err]
  ELSE IF result.err # ""
  THEN [S |-> result.S, dec |-> FailOpen(result.err, t2), over |-> FALSE,
        capacity |-> 0, quota |-> m.val, raised |-> result.err, threw |-> ""]
  ELSE [S |-> result.S, dec |-> Decide(result, m.val, t2), over |-> result.over,
        capacity |-> result.capacity, quota |-> m.val, raised |-> "", threw |-> ""]

\* what check returns given the resolved max m and the algorithm's result:
\* [S, dec, over, capacity, quota, raised, threw].  quota is the max the call
\* resolved (0: none), raised the fault caught by the catch block, threw the
\* fault check itself rejects with: everything after the key test is inside
\* the try block, so none
RateLimiter_outcome(S, m, result, t2) ==
  IF m.err # ""
  THEN [S |-> S, dec |-> FailOpen(m.err, t2), over |-> FALSE, capacity |-> 0, quota |-> 0,
        raised |-> m.err, threw |-> ""]
  ELSE IF result.err # ""
  THEN [S |-> result.S, dec |-> FailOpen(result.err, t2), over |-> FALSE,
        capacity |-> 0, quota |-> m.val, raised |-> result.err, threw |-> ""]
  ELSE [S |-> result.S, dec |-> Decide(result, m.val, t2), over |-> result.over,
        capacity |-> result.capacity, quota |-> m.val, raised |-> "", threw |-> ""]

\* check(key, options), for a valid key: the algorithm reads the clock at t,
\* the Limiter reads it again at t + d
RateLimiter_check(S, key, opts, fault, t, d) ==
  RateLimiter_outcome(S, ResolveMax(opts, fault),
                      Algorithm_check(S, key, opts, t, fault), t + d)

\* reset(key), for a valid key
RateLimiter_reset(S, key, fault) == Store_reset(S, key, fault)

\* resetAll(): every store of the model has a resetAll method
RateLimiter_resetAll(S, fault) == Store_resetAll(S, fault)

----------------------------------------------------------------------------
(* State machine *)

Cur == [mem |-> mem, timers |-> timers, sched |-> sched, db |-> db]

Idle(op) ==
  [op |-> op, key |-> "", dec |-> NoDecision, over |-> FALSE, capacity |-> 0,
   quota |-> 0, raised |-> "", threw |-> "", fresh |-> FALSE,
   prevOp |-> "", prevKey |-> ""]

\* the options callers pass to check
Reqs == [isPremium : BOOLEAN]
CallOpts == [req : Reqs, capacity : cfg.callCapacities]
\* what can fail during a call: the in-process store never does
Faults ==
  IF cfg.store = "memory"
  THEN {"none"} \cup (IF IsFn(cfg.max) THEN {"max"} ELSE {})
  ELSE {"none", "get", "set", "increment"} \cup (IF IsFn(cfg.max) THEN {"max"} ELSE {})

SetStore(S) ==
  /\ mem' = S.mem
  /\ timers' = S.timers
  /\ sched' = S.sched
  /\ db' = S.db

\* no record of key is in the in-process store at this time
Fresh(key) ==
  (IF cfg.algorithm = "fixed-window" THEN FixedWindow_key(key, now) ELSE key)
    \notin DOMAIN mem

\* the record of one check call, as logged in hist
HistEntry(key, out, d) ==
  [key |-> key, t |-> now, t2 |-> now + d,
   fresh |-> Fresh(key),
   allowed |-> out.dec.allowed, current |-> out.dec.current,
   remaining |-> out.dec.remaining, retryAfter |-> out.dec.retryAfter,
   resetTime |-> out.dec.resetTime, error |-> out.dec.error,
   limit |-> out.dec.limit, capacity |-> out.capacity]

\* the observations held for key at this time: the counter's value or the
\* number of timestamps
ValueSize(v) ==
  IF HasField(v, "count") THEN v.count
  ELSE IF HasField(v, "requests") THEN Len(v.requests)
  ELSE 0
EntrySize(k) ==
  IF k \notin DOMAIN db THEN 0
  ELSE IF db[k].type = "zset" THEN Len(db[k].val)
  ELSE IF HasField(db[k].val, "int") THEN db[k].val.int
  ELSE 0
RecordSize(key) ==
  LET ks == {key, FixedWindow_key(key, now)}
      sizes == {ValueSize(MapGet(mem, k)) : k \in ks}
                 \cup {EntrySize(RedisStore_getKey(k)) : k \in ks}
                 \cup {EntrySize(ScoresKey(RedisStore_getKey(k))) : k \in ks}
  IN CHOOSE n \in sizes : \A m \in sizes : m <= n

\* the state after a check call that returned out
Returned(key, out, d, logged) ==
  /\ SetStore(out.S)
  /\ last' = [op |-> "check", key |-> key, dec |-> out.dec, over |-> out.over,
              capacity |-> out.capacity, quota |-> out.quota,
              raised |-> out.raised, threw |-> out.threw, fresh |-> Fresh(key),
              prevOp |-> IF last.threw # "" THEN "failed" ELSE last.op,
              prevKey |-> last.key]
  /\ hist' = IF logged THEN Append(hist, HistEntry(key, out, d)) ELSE hist

CheckStep(key, opts, fault, d, logged) ==
  /\ now + d <= MaxTime
  /\ RecordSize(key) < MaxCount
  /\ logged => Len(hist) < MaxHist
  /\ Returned(key, RateLimiter_check(Cur, key, opts, fault, now, d), d, logged)
  /\ now' = now + d
  /\ UNCHANGED <<cfg, calls>>

Check ==
  \E key \in cfg.keys, opts \in CallOpts, fault \in Faults, d \in 0..MaxDelay :
    CheckStep(key, opts, fault, d, FALSE)

CheckLogged ==
  \E key \in cfg.keys, opts \in CallOpts, fault \in Faults, d \in 0..MaxDelay :
    CheckStep(key, opts, fault, d, TRUE)

\* the state after reset / resetAll returned r (or threw r.err)
Reseted(op, key, r) ==
  /\ SetStore(r.S)
  /\ last' = [Idle(op) EXCEPT !.key = key, !.threw = r.err]

Reset ==
  \E key \in cfg.keys, fault \in {"none", "reset"} :
    /\ fault = "reset" => cfg.store # "memory"
    /\ Reseted("reset", key, RateLimiter_reset(Cur, key, fault))
    /\ UNCHANGED <<cfg, now, hist, calls>>

ResetAll ==
  \E fault \in {"none", "reset"} :
    /\ fault = "reset" => cfg.store # "memory"
    /\ Reseted("resetAll", "", RateLimiter_resetAll(Cur, fault))
    /\ UNCHANGED <<cfg, now, hist, calls>>

Tick ==
  /\ now < MaxTime
  /\ now' = now + 1
  /\ last' = Idle("tick")
  /\ UNCHANGED <<cfg, mem, timers, sched, db, hist, calls>>

\* Object identity in the in-process store.  A suspended call that holds the
\* object the Map has under a key (c.alias) sees what others do to that object
\* in place; once the Map's entry is deleted or replaced by another object the
\* call is left with the object as it was (c.data, no longer aliased).
Orphaned(cs, skey) ==
  [i \in DOMAIN cs |->
     IF cs[i].alias /\ cs[i].skey = skey
     THEN [cs[i] EXCEPT !.alias = FALSE, !.data = MapGet(mem, skey)]
     ELSE cs[i]]

\* a due timer's callback runs (at its due time or later)
TimerFire ==
  \E tm \in sched :
    /\ tm.due <= now
    /\ SetStore(TimerCallback(Cur, tm))
    /\ calls' = Orphaned(calls, tm.key)
    /\ last' = Idle("timer")
    /\ UNCHANGED <<cfg, now, hist>>

\* a new process: the clock, empty stores, nothing called yet
InitData ==
  /\ now = 1
  /\ mem = EmptyMap
  /\ timers = EmptyMap
  /\ sched = {}
  /\ db = EmptyMap
  /\ last = Idle("init")
  /\ hist = <<>>

\* callers that await every call before they make the next: none in flight
InitStore ==
  /\ InitData
  /\ calls = EmptyMap

Algorithms == {"sliding-window", "fixed-window", "token-bucket", "leaky-bucket"}

----------------------------------------------------------------------------
(* Overlapping check calls.  Every store method is async and every call of *)
(* one is awaited, so a check call runs from one await to the next and     *)
(* other calls run in between.  Over the in-process store the code between *)
(* two awaits is:                                                          *)
(*   sliding window, token and leaky bucket: store.get | the computation   *)
(*     and the store write (set or increment) | the Decision;              *)
(*   fixed window: store.increment up to its await of set | increment's    *)
(*     return, which reads data.count | the Decision.                      *)
(* A call is [op, pc, key, skey, t, ts, data, alias, first, res, dec] plus *)
(* what the run observed: seen (the record it read), wrote (the record it  *)
(* set) and raced (another call that had read the same record wrote to the *)
(* key while this call was between its read and its write).                *)

NoResult == [err |-> "", count |-> 0, resetTime |-> 0, over |-> FALSE, capacity |-> 0]
NoCall ==
  [op |-> "none", pc |-> "idle", key |-> "", skey |-> "", t |-> 0, ts |-> 0,
   data |-> Undefined, alias |-> FALSE, first |-> FALSE,
   res |-> NoResult, dec |-> NoDecision,
   seen |-> Undefined, wrote |-> Undefined, raced |-> FALSE]

\* call ids are taken in order
CanBegin(i) ==
  calls[i].pc = "idle" /\ (IF i = 1 THEN TRUE ELSE calls[i - 1].pc # "idle")

\* CallData for a call that reads the store again when it resumes
CallData_reread(c) == MapGet(mem, c.skey)

\* the object a suspended call holds, as it is when the call resumes
CallData(c) == IF c.alias THEN MapGet(mem, c.skey) ELSE c.data

\* the options of the check calls of this configuration
ConcOpts ==
  [req |-> [isPremium |-> FALSE], capacity |-> CHOOSE c \in cfg.callCapacities : TRUE]

\* an algorithm's result without the store
Stripped(r) ==
  [err |-> r.err, count |-> r.count, resetTime |-> r.resetTime,
   over |-> r.over, capacity |-> r.capacity]

\* check is called: the code up to the first await that suspends it
CheckBegin_get(i, key) ==
  /\ calls' = [calls EXCEPT ![i] =
       [NoCall EXCEPT !.op = "check", !.pc = "afterGet", !.key = key, !.skey = key,
                      !.t = now, !.data = MemoryStore_get(Cur, key),
                      !.alias = ~IsUndef(MemoryStore_get(Cur, key)),
                      !.seen = MemoryStore_get(Cur, key)]]
  /\ UNCHANGED <<mem, timers, sched, db>>

CheckBegin_incremented(i, key, wk, r) ==
  /\ SetStore(r.S)
  /\ calls' = [(IF Falsy(MapGet(mem, wk)) THEN Orphaned(calls, wk) ELSE calls) EXCEPT ![i] =
       [NoCall EXCEPT !.op = "check", !.pc = "inIncrement", !.key = key, !.skey = wk,
                      !.t = now, !.data = MapGet(r.S.mem, wk), !.alias = TRUE,
                      !.first = Falsy(MapGet(mem, wk)),
                      !.seen = MapGet(mem, wk), !.wrote = MapGet(r.S.mem, wk)]]

CheckBegin ==
  \E i \in DOMAIN calls, key \in cfg.keys :
    /\ CanBegin(i)
    /\ IF cfg.algorithm = "fixed-window"
       THEN CheckBegin_incremented(i, key, FixedWindow_key(key, now),
              Store_increment(Cur, FixedWindow_key(key, now), cfg.windowMs, 0, now, "none"))
       ELSE CheckBegin_get(i, key)
    /\ UNCHANGED <<cfg, now, last, hist>>

\* the algorithm resumed after store.get with the object d and ran to r
AfterGet(c, d) ==
  CASE cfg.algorithm = "sliding-window" ->
         SlidingWindow_afterGet(Ok(Cur, d), c.key, c.t, "none")
    [] cfg.algorithm = "token-bucket" ->
         TokenBucket_afterGet(Ok(Cur, d), c.key, OptCapacity(ConcOpts), DefaultRate,
                              c.t, "none")
    [] cfg.algorithm = "leaky-bucket" ->
         LeakyBucket_afterGet(Ok(Cur, d), c.key, OptCapacity(ConcOpts), DefaultRate,
                              c.t, "none")

\* MemoryStore.increment found an object under the key and changed it in place
InPlace(c, d) ==
  /\ cfg.algorithm = "sliding-window"
  /\ Falsy(d) \/ ~HasField(d, "requests")
  /\ ~Falsy(MapGet(mem, c.skey))

CheckResume_wrote(i, c, d, r) ==
  /\ SetStore(r.S)
  /\ calls' =
       [j \in DOMAIN calls |->
          IF j = i
          THEN [c EXCEPT !.pc = "afterWrite", !.res = Stripped(r), !.alias = FALSE,
                         !.data = d,
                         !.wrote = IF r.over THEN Undefined ELSE MapGet(r.S.mem, c.skey)]
          ELSE IF r.over THEN calls[j]
          ELSE LET o == IF InPlace(c, d) THEN calls[j] ELSE Orphaned(calls, c.skey)[j]
               IN IF o.pc = "afterGet" /\ o.skey = c.skey /\ o.seen = c.seen
                  THEN [o EXCEPT !.raced = TRUE]
                  ELSE o]

CheckResume_counted(i, c, r) ==
  /\ calls' = [calls EXCEPT ![i] =
       [c EXCEPT !.pc = "afterWrite", !.res = Stripped(r), !.alias = FALSE]]
  /\ UNCHANGED <<mem, timers, sched, db>>

\* a suspended check call runs from the await it is at to the next
CheckResume ==
  \E i \in DOMAIN calls :
    /\ calls[i].op = "check"
    /\ \/ /\ calls[i].pc = "afterGet"
          /\ CheckResume_wrote(i, calls[i], CallData(calls[i]),
                               AfterGet(calls[i], CallData(calls[i])))
       \/ /\ calls[i].pc = "inIncrement"
          /\ CheckResume_counted(i, calls[i],
               FixedWindow_afterIncrement(
                 Ok(Cur, Num(IF calls[i].first THEN 1 ELSE CallData(calls[i]).count)),
                 calls[i].t \div cfg.windowMs))
    /\ UNCHANGED <<cfg, now, last, hist>>

\* the algorithm has returned: check reads the clock and returns its Decision
CheckFinish_returned(i, c, out) ==
  /\ Returned(c.key, out, 0, FALSE)
  /\ calls' = [calls EXCEPT ![i] = [c EXCEPT !.pc = "done", !.dec = out.dec]]

CheckFinish ==
  \E i \in DOMAIN calls :
    /\ calls[i].op = "check" /\ calls[i].pc = "afterWrite"
    /\ CheckFinish_returned(i, calls[i],
         RateLimiter_outcome(Cur, ResolveMax(ConcOpts, "none"),
                             AlgOk(Cur, calls[i].res.count, calls[i].res.resetTime,
                                   calls[i].res.over, calls[i].res.capacity),
                             now))
    /\ UNCHANGED <<cfg, now>>

(* SpecConc: overlapping check calls on one key over the in-process store, *)
(* the window algorithms with a static limit, the clock and the expiry     *)
(* timers.                                                                 *)
InitConc ==
  /\ InitData
  /\ calls = [i \in 1..MaxCalls |-> NoCall]
  /\ cfg \in [algorithm : {"sliding-window", "fixed-window"},
              store : {"memory"},
              max : {Num(1), Num(2)},
              windowMs : {3},
              capacity : {0},
              callCapacities : {{0}},
              keys : {{"a"}}]

NextConc == CheckBegin \/ CheckResume \/ CheckFinish \/ Tick \/ TimerFire

SpecConc == InitConc /\ [][NextConc]_vars

(* SpecRace: overlapping check calls on one key over the in-process store, *)
(* the bucket algorithms with capacity = limit, all within one             *)
(* millisecond.                                                            *)
InitRace ==
  /\ InitData
  /\ calls = [i \in 1..MaxCalls |-> NoCall]
  /\ \E c \in {1, 2} :
       cfg \in [algorithm : {"token-bucket", "leaky-bucket"},
               store : {"memory"},
               max : {Num(c)},
               windowMs : {1, 3},
               capacity : {0},
               callCapacities : {{c}},
               keys : {{"a", "b"}}]

NextRace == CheckBegin \/ CheckResume \/ CheckFinish

SpecRace == InitRace /\ [][NextRace]_vars

----------------------------------------------------------------------------
(* Overlapping calls of the store's increment and decrement.  RedisStore   *)
(* awaits every client command, so a call runs one command at a time and   *)
(* the server runs other calls' commands in between:                       *)
(*   increment, counter mode:   INCR | EXPIRE when the count is 1          *)
(*   increment, timestamp mode: ZREMRANGEBYSCORE | ZADD | EXPIRE | ZCARD   *)
(*   decrement:                 TYPE | ZPOPMAX, or GET | DECR              *)
(* MemoryStore.decrement has no await; MemoryStore.increment awaits its    *)
(* own set and reads the count from the stored object after it.            *)
(* seen and wrote are the timestamps the key held when the call began and  *)
(* when it ended; raced: another call was in flight during this one.       *)

InFlight(c) == c.pc \notin {"idle", "done"}
OthersInFlight(i) == \E j \in DOMAIN calls \ {i} : InFlight(calls[j])

\* the timestamps store S holds for key: the requests array, or the sorted set
\* of increment's timestamp mode
Entries(S, key) ==
  IF cfg.store = "redis"
  THEN IF ScoresKey(RedisStore_getKey(key)) \in DOMAIN S.db
          /\ S.db[ScoresKey(RedisStore_getKey(key))].type = "zset"
       THEN S.db[ScoresKey(RedisStore_getKey(key))].val
       ELSE <<>>
  ELSE IF HasField(MapGet(S.mem, key), "requests") THEN S.mem[key].requests ELSE <<>>

\* call i of method op on key begins, others being in flight or not
Began(i, op, key, ts) ==
  [NoCall EXCEPT !.op = op, !.key = key, !.skey = key, !.t = now, !.ts = ts,
                 !.seen = Entries(Cur, key), !.raced = OthersInFlight(i)]

\* the calls after call i went on as c, the store becoming S
Stepped(i, c, S) ==
  [j \in DOMAIN calls |->
     IF j = i
     THEN IF c.pc = "done" THEN [c EXCEPT !.wrote = Entries(S, c.key)] ELSE c
     ELSE IF InFlight(calls[j]) THEN [calls[j] EXCEPT !.raced = TRUE] ELSE calls[j]]

\* a client command of call c answered r: the call goes on at pc with the
\* answer, or ends with the error (increment rethrows, decrement swallows)
AfterCommand(i, c, r, pc) ==
  /\ db' = r.db
  /\ calls' = Stepped(i, IF r.err # ""
                         THEN [c EXCEPT !.pc = "done", !.res.err = r.err]
                         ELSE [c EXCEPT !.pc = pc, !.data = r.ret],
                      [Cur EXCEPT !.db = r.db])
  /\ UNCHANGED <<mem, timers, sched>>

\* MemoryStore.increment up to its await of set
MemoryIncrementBegin(i, key, ts, r) ==
  /\ SetStore(r.S)
  /\ calls' = Stepped(i, [Began(i, "increment", key, ts) EXCEPT
                            !.pc = "inIncrement", !.alias = TRUE,
                            !.first = Falsy(MapGet(mem, key)),
                            !.data = MapGet(r.S.mem, key)],
                      r.S)

IncrementBegin ==
  \E i \in DOMAIN calls, key \in cfg.keys, ts \in {0, now} :
    /\ CanBegin(i)
    /\ IF cfg.store = "redis"
       THEN IF ts # 0
            THEN AfterCommand(i, Began(i, "increment", key, ts),
                   Client_zremrangebyscore(db, ScoresKey(RedisStore_getKey(key)),
                                           now - cfg.windowMs, now),
                   "trimmed")
            ELSE AfterCommand(i, Began(i, "increment", key, ts),
                   Client_incr(db, RedisStore_getKey(key), now), "incremented")
       ELSE MemoryIncrementBegin(i, key, ts,
              MemoryStore_increment(Cur, key, cfg.windowMs, ts, now))
    /\ UNCHANGED <<cfg, now, last, hist>>

\* MemoryStore.decrement, which runs to its end
MemoryDecrement(i, key, S) ==
  /\ SetStore(S)
  /\ calls' = Stepped(i, [Began(i, "decrement", key, 0) EXCEPT !.pc = "done"], S)

DecrementBegin ==
  \E i \in DOMAIN calls, key \in cfg.keys :
    /\ CanBegin(i)
    /\ IF cfg.store = "redis"
       THEN AfterCommand(i, Began(i, "decrement", key, 0),
              CRet(db, [type |-> Client_type(db, RedisStore_getKey(key), now)]), "typed")
       ELSE MemoryDecrement(i, key, MemoryStore_decrement(Cur, key))
    /\ UNCHANGED <<cfg, now, last, hist>>

\* the call returns without another command
Returns(i, c) ==
  /\ calls' = Stepped(i, [c EXCEPT !.pc = "done"], Cur)
  /\ UNCHANGED <<mem, timers, sched, db>>

\* the count MemoryStore.increment returns after its await
MemoryCount(c) ==
  IF c.first THEN 1
  ELSE IF c.ts # 0 THEN Len(CallData(c).requests)
  ELSE CallData(c).count

\* the next command of a suspended store call
StoreResume_next(i, c, fullKey) ==
  CASE c.pc = "incremented" ->
         IF c.data = Num(1) /\ cfg.windowMs > 0
         THEN AfterCommand(i, [c EXCEPT !.res.count = c.data.num],
                Client_expire(db, fullKey, CeilDiv(cfg.windowMs, MsPerSec), now), "done")
         ELSE Returns(i, [c EXCEPT !.res.count = c.data.num])
    [] c.pc = "trimmed" ->
         AfterCommand(i, c, Client_zadd(db, ScoresKey(fullKey), c.ts, now), "added")
    [] c.pc = "added" ->
         AfterCommand(i, c,
           Client_expire(db, ScoresKey(fullKey), CeilDiv(cfg.windowMs, MsPerSec) + 1, now),
           "expired")
    [] c.pc = "expired" ->
         AfterCommand(i, c, Client_zcard(db, ScoresKey(fullKey), now), "done")
    [] c.pc = "typed" ->
         IF c.data.type = "zset"
         THEN AfterCommand(i, c, Client_zpopmax(db, ScoresKey(fullKey), now), "done")
         ELSE AfterCommand(i, c, Client_get(db, fullKey, now), "read")
    [] c.pc = "read" ->
         IF ~IsUndef(c.data) /\ HasField(c.data, "int") /\ c.data.int > 0
         THEN AfterCommand(i, c, Client_decr(db, fullKey, now), "done")
         ELSE Returns(i, c)
    [] c.pc = "inIncrement" ->
         Returns(i, [c EXCEPT !.res.count = MemoryCount(c), !.alias = FALSE])

StoreResume ==
  \E i \in DOMAIN calls :
    /\ calls[i].op \in {"increment", "decrement"}
    /\ InFlight(calls[i])
    /\ StoreResume_next(i, calls[i], RedisStore_getKey(calls[i].key))
    /\ UNCHANGED <<cfg, now, last, hist>>

(* SpecStore: overlapping increment and decrement calls on one key of each *)
(* store, in counter mode and in timestamp mode, the clock and the expiry  *)
(* timers.                                                                 *)
InitStoreCalls ==
  /\ InitData
  /\ calls = [i \in 1..MaxCalls |-> NoCall]
  /\ cfg \in [algorithm : {"fixed-window"},
              store : {"memory", "redis"},
              max : {Num(1)},
              windowMs : {3},
              capacity : {0},
              callCapacities : {{0}},
              keys : {{"a"}}]

NextStore == IncrementBegin \/ DecrementBegin \/ StoreResume \/ Tick \/ TimerFire

SpecStore == InitStoreCalls /\ [][NextStore]_vars

(* SpecWin: the window algorithms over the in-process store with a static  *)
(* limit; checks, the clock and the expiry timers only; every check is     *)
(* logged.                                                                 *)
InitWin ==
  /\ InitStore
  /\ cfg \in [algorithm : {"sliding-window", "fixed-window"},
              store : {"memory"},
              max : {Num(1), Num(2)},
              windowMs : {3},
              capacity : {0},
              callCapacities : {{0}},
              keys : {{"a", "b"}}]

NextWin == CheckLogged \/ Tick \/ TimerFire

SpecWin == InitWin /\ [][NextWin]_vars

(* SpecRemote: the window algorithms over the in-process store and over    *)
(* the remote store, one key, every check logged.                          *)
InitRemote ==
  /\ InitStore
  /\ cfg \in [algorithm : {"sliding-window", "fixed-window"},
              store : {"memory", "redis"},
              max : {Num(1), Num(2)},
              windowMs : {3},
              capacity : {0},
              callCapacities : {{0}},
              keys : {{"a"}}]

SpecRemote == InitRemote /\ [][NextWin]_vars

\* a quota function: 2 for a premium request, 1 otherwise
DynamicMax == [function |-> TRUE, premium |-> 2, basic |-> 1]

(* Spec: every algorithm over every store, static and dynamic max, with    *)
(* store faults, reset and resetAll, on one key.                           *)
Init ==
  /\ InitStore
  /\ cfg \in [algorithm : Algorithms,
              store : {"memory", "redis", "custom"},
              max : {Num(2), DynamicMax},
              windowMs : {3},
              capacity : {0},
              callCapacities : {{2}},
              keys : {{"a"}}]

Next == Check \/ Reset \/ ResetAll \/ Tick \/ TimerFire

Spec == Init /\ [][Next]_vars

(* SpecKeys: two keys of which one is the other with the suffix the        *)
(* stores append (":scores", a window index), and two unrelated keys.      *)
KeysOptions ==
  {[algorithm |-> "token-bucket", store |-> "redis", keys |-> {"a", "a:scores"}],
   [algorithm |-> "sliding-window", store |-> "redis", keys |-> {"a", "a:scores"}],
   [algorithm |-> "fixed-window", store |-> "memory", keys |-> {"a", "a:1"}],
   [algorithm |-> "sliding-window", store |-> "memory", keys |-> {"a", "b"}]}

InitKeys ==
  /\ InitStore
  /\ \E o \in KeysOptions :
       cfg \in [algorithm : {o.algorithm},
               store : {o.store},
               max : {Num(2)},
               windowMs : {3},
               capacity : {0},
               callCapacities : {{2}},
               keys : {o.keys}]

SpecKeys == InitKeys /\ [][Next]_vars

(* SpecBucket: the bucket algorithms over the in-process store, with the   *)
(* constructor's defaults, with capacity given to the constructor, and     *)
(* with capacity given in the options of each check call.                  *)
BucketOptions ==
  {[max |-> Num(DefaultMax), capacity |-> 0, callCapacities |-> {0}],
   [max |-> Num(2), capacity |-> 2, callCapacities |-> {0}],
   [max |-> Num(2), capacity |-> 0, callCapacities |-> {2}]}

InitBucket ==
  /\ InitStore
  /\ \E o \in BucketOptions :
       cfg \in [algorithm : {"token-bucket", "leaky-bucket"},
               store : {"memory"},
               max : {o.max},
               windowMs : {1, 2},
               capacity : {o.capacity},
               callCapacities : {o.callCapacities},
               keys : {{"a"}}]

SpecBucket == InitBucket /\ [][Next]_vars

(* SpecTB: the token bucket over the in-process store with limit =         *)
(* capacity, every check logged.                                           *)
InitTB ==
  /\ InitStore
  /\ \E c \in {1, 2} :
       cfg \in [algorithm : {"token-bucket"},
               store : {"memory"},
               max : {Num(c)},
               windowMs : {1, 2},
               capacity : {0},
               callCapacities : {{c}},
               keys : {{"a", "b"}}]

SpecTB == InitTB /\ [][NextWin]_vars

----------------------------------------------------------------------------
(* new RateLimiter(options).  An option is a JavaScript value: Absent (the *)
(* property is not given, so the default stays after the spread), Undefined,*)
(* Null, a number, NaN, a string, a function, or an object with methods.   *)

Absent == [absent |-> TRUE]
Null == [null |-> TRUE]
NaN == [nan |-> TRUE]
Str(s) == [str |-> s]
Obj(methods) == [methods |-> methods]

IsNaN(v) == HasField(v, "nan")
IsStr(v) == HasField(v, "str")
IsObj(v) == HasField(v, "methods")

\* typeof v
TypeOf(v) ==
  IF IsNum(v) \/ IsNaN(v) THEN "number"
  ELSE IF IsFn(v) THEN "function"
  ELSE IF IsStr(v) THEN "string"
  ELSE IF IsUndef(v) THEN "undefined"
  ELSE "object"

\* v <= 0 for a v whose typeof is number: every comparison with NaN is false
LeqZero(v) == IsNum(v) /\ v.num <= 0

\* one property of { ...defaults, ...options }
Spread(default, v) == IF v = Absent THEN default ELSE v

\* const config = { ...defaults, ...options }
ConfigOf(options) ==
  [windowMs |-> Spread(Num(DefaultWindowMs), options.windowMs),
   max |-> Spread(Num(DefaultMax), options.max),
   algorithm |-> Spread(Str("sliding-window"), options.algorithm),
   store |-> Spread(Str("memory"), options.store)]

\* _validateOptions(options): the message of the error it throws, or ""
RateLimiter_validateOptions(config) ==
  IF TypeOf(config.windowMs) # "number" \/ LeqZero(config.windowMs)
  THEN "windowMs must be positive"
  ELSE IF TypeOf(config.max) # "number" /\ TypeOf(config.max) # "function"
  THEN "max must be a number or a function"
  ELSE IF TypeOf(config.max) = "number" /\ LeqZero(config.max)
  THEN "max must be positive"
  ELSE IF ~(IsStr(config.algorithm) /\ config.algorithm.str \in Algorithms)
  THEN "algorithm must be one of"
  ELSE ""

RequiredMethods == {"increment", "get", "reset"}

\* _initializeStore(store): [err, store], store the kind of store it returns
RateLimiter_initializeStore(store) ==
  IF IsUndef(store) \/ store = Null \/ store = Str("") \/ store = Str("memory")
  THEN [err |-> "", store |-> "memory"]
  ELSE IF IsStr(store) /\ Len(store.str) >= 8 /\ SubSeq(store.str, 1, 8) = "redis://"
  THEN [err |-> "", store |-> "redis"]
  ELSE IF IsObj(store)
  THEN IF RequiredMethods \subseteq store.methods
       THEN [err |-> "", store |-> "custom"]
       ELSE [err |-> "store must implement method", store |-> ""]
  ELSE [err |-> "invalid store configuration", store |-> ""]

\* what the constructor left behind: the error thrown, whether the caller got
\* a Limiter, and the store that was created or adopted ("" for none)
Constructed(options, threw, limiter, store) ==
  [op |-> "construct", options |-> options, threw |-> threw,
   limiter |-> limiter, store |-> store]

RateLimiter_constructor_store(options, r) ==
  IF r.err # "" THEN Constructed(options, r.err, FALSE, "")
  ELSE Constructed(options, "", TRUE, r.store)

\* constructor(options): validation, then the store, then the algorithm, which
\* is found for every name validation lets through
RateLimiter_constructor(options) ==
  IF RateLimiter_validateOptions(ConfigOf(options)) # ""
  THEN Constructed(options, RateLimiter_validateOptions(ConfigOf(options)), FALSE, "")
  ELSE RateLimiter_constructor_store(options,
         RateLimiter_initializeStore(ConfigOf(options).store))

\* the values a caller may give for windowMs and max
OptionValues ==
  {Absent, Undefined, Null, Num(-1), Num(0), Num(1), NaN, Str("1"), Fn}

AlgorithmValues ==
  {Absent, Undefined, Str("invalid")} \cup {Str(a) : a \in Algorithms}

StoreValues ==
  {Absent, Null, Str("memory"), Str("redis://h"), Str("other"),
   Obj(RequiredMethods), Obj({"get"}),
   Obj(RequiredMethods \cup {"set", "decrement"}),
   Obj(RequiredMethods \cup {"set"})}

\* the caller runs new RateLimiter(cfg), once
Construct ==
  /\ last.op = "init"
  /\ last' = RateLimiter_constructor(cfg)
  /\ UNCHANGED <<cfg, now, mem, timers, sched, db, hist, calls>>

(* SpecCtor: the constructor on every combination of option values.        *)
InitCtor ==
  /\ InitStore
  /\ cfg \in [windowMs : OptionValues, max : OptionValues,
              algorithm : AlgorithmValues, store : StoreValues]

NextCtor == Construct

SpecCtor == InitCtor /\ [][NextCtor]_vars

----------------------------------------------------------------------------
(* check and reset with any JavaScript value as the key.                   *)

\* !v
Not(v) ==
  IsUndef(v) \/ v = Null \/ IsNaN(v) \/ v = Str("") \/ (IsNum(v) /\ v.num = 0)

KeyError == "key must be a non-empty string"

\* what check leaves when it rejects before the try block
Rejected(S, message) ==
  [S |-> S, dec |-> NoDecision, over |-> FALSE, capacity |-> 0, quota |-> 0,
   raised |-> "", threw |-> message]

\* RateLimiter_checkKey with the key test inside the try block: the key error
\* is caught and becomes the fail-open Decision
RateLimiter_checkKey_insideTry(S, keyv, opts, fault, t, d) ==
  IF Not(keyv) \/ TypeOf(keyv) # "string"
  THEN [S |-> S, dec |-> FailOpen(KeyError, t + d), over |-> FALSE, capacity |-> 0,
        quota |-> 0, raised |-> KeyError, threw |-> ""]
  ELSE RateLimiter_check(S, keyv.str, opts, fault, t, d)

\* check(key, options): the key test, then the try block
RateLimiter_checkKey(S, keyv, opts, fault, t, d) ==
  IF Not(keyv) \/ TypeOf(keyv) # "string"
  THEN Rejected(S, KeyError)
  ELSE RateLimiter_check(S, keyv.str, opts, fault, t, d)

\* reset(key): the key test, then store.reset
RateLimiter_resetKey(S, keyv, fault) ==
  IF Not(keyv) \/ TypeOf(keyv) # "string"
  THEN [S |-> S, err |-> KeyError]
  ELSE RateLimiter_reset(S, keyv.str, fault)

\* the values callers pass as the key
KeyValues ==
  {Str(k) : k \in cfg.keys} \cup {Str(""), Undefined, Null, Num(0), Num(5), Obj({})}

\* the state after a call of op with the argument keyv
CalledWith(op, keyv, S, dec, raised, threw) ==
  /\ SetStore(S)
  /\ last' = SetField([Idle(op) EXCEPT !.key = IF IsStr(keyv) THEN keyv.str ELSE "",
                                       !.dec = dec, !.raised = raised,
                                       !.threw = threw],
                       "arg", keyv)

CheckAny_returned(keyv, out, d) ==
  /\ CalledWith("check", keyv, out.S, out.dec, out.raised, out.threw)
  /\ now' = IF out.threw # "" THEN now ELSE now + d

CheckAny ==
  \E keyv \in KeyValues, opts \in CallOpts, fault \in Faults, d \in 0..MaxDelay :
    /\ now + d <= MaxTime
    /\ IsStr(keyv) => RecordSize(keyv.str) < MaxCount
    /\ CheckAny_returned(keyv, RateLimiter_checkKey(Cur, keyv, opts, fault, now, d), d)
    /\ UNCHANGED <<cfg, hist, calls>>

ResetAny_returned(keyv, r) ==
  CalledWith("reset", keyv, r.S, NoDecision, "", r.err)

ResetAny ==
  \E keyv \in KeyValues, fault \in {"none", "reset"} :
    /\ fault = "reset" => cfg.store # "memory"
    /\ ResetAny_returned(keyv, RateLimiter_resetKey(Cur, keyv, fault))
    /\ UNCHANGED <<cfg, now, hist, calls>>

(* SpecAnyKey: check and reset with valid and invalid keys, the four       *)
(* algorithms over both stores with a static limit.                        *)
InitAnyKey ==
  /\ InitStore
  /\ cfg \in [algorithm : Algorithms,
              store : {"memory", "redis"},
              max : {Num(1)},
              windowMs : {2},
              capacity : {0},
              callCapacities : {{0}},
              keys : {{"a"}}]

NextAnyKey == CheckAny \/ ResetAny \/ Tick \/ TimerFire

SpecAnyKey == InitAnyKey /\ [][NextAnyKey]_vars

----------------------------------------------------------------------------
(* The operations of a store called one after the other.  In SpecOps hist  *)
(* is not a log of checks but what the calls so far did to each key:       *)
(*   latest: key -> [t, ttl, value] while the last write to the key is a   *)
(*           set with a ttl;                                               *)
(*   armed:  key -> the due time of the timeout that the most recent       *)
(*           set with a ttl scheduled (set itself or the set inside        *)
(*           increment);                                                   *)
(*   armedSince: the keys that a set with a ttl wrote since the last       *)
(*           reset of the key or resetAll.                                 *)

NoWrites == [latest |-> EmptyMap, armed |-> EmptyMap, armedSince |-> {}]

\* the values and ttls callers pass to set; ttl 0 stands for "not given"
OpValues == {[count |-> 1], [tokens |-> 1, lastRefill |-> 1]}
OpTtls == {0, 1, 2}

Store_decrement(S, key, t) ==
  IF cfg.store = "redis" THEN RedisStore_decrement(S, key, t)
  ELSE MemoryStore_decrement(S, key)

\* the state after the store's method op on key returned ret and left S
Operated(op, key, S, ret, writes) ==
  /\ SetStore(S)
  /\ last' = [op |-> op, key |-> key, ret |-> ret]
  /\ hist' = writes
  /\ UNCHANGED <<cfg, now, calls>>

\* hist after a set on key with this ttl
AfterSet(key, value, ttl) ==
  IF ttl > 0
  THEN [latest |-> MapPut(hist.latest, key, [t |-> now, ttl |-> ttl, value |-> value]),
        armed |-> MapPut(hist.armed, key, now + ttl),
        armedSince |-> hist.armedSince \cup {key}]
  ELSE [hist EXCEPT !.latest = MapDel(hist.latest, key)]

SetOp ==
  \E key \in cfg.keys, value \in OpValues, ttl \in OpTtls :
    Operated("set", key, Store_set(Cur, key, value, ttl, now, "none").S, Undefined,
             AfterSet(key, value, ttl))

GetOp ==
  \E key \in cfg.keys :
    Operated("get", key, Cur, Store_get(Cur, key, now, "none").ret, hist)

\* increment sets the record with ttl windowMs (MemoryStore: in every call);
\* the counter mode only: the timers do not depend on the mode
IncrementOp_returned(key, windowMs, r) ==
  Operated("increment", key, r.S, r.ret,
           [AfterSet(key, Undefined, windowMs) EXCEPT !.latest = MapDel(hist.latest, key)])

IncrementOp ==
  \E key \in cfg.keys, windowMs \in {0, cfg.windowMs}, timestamp \in {0} :
    /\ RecordSize(key) < MaxCount
    /\ IncrementOp_returned(key, windowMs,
         Store_increment(Cur, key, windowMs, timestamp, now, "none"))

DecrementOp ==
  \E key \in cfg.keys :
    Operated("decrement", key, Store_decrement(Cur, key, now), Undefined,
             [hist EXCEPT !.latest = MapDel(hist.latest, key)])

ResetOp ==
  \E key \in cfg.keys :
    Operated("reset", key, Store_reset(Cur, key, "none").S, Undefined,
             [hist EXCEPT !.latest = MapDel(hist.latest, key),
                          !.armedSince = hist.armedSince \ {key}])

ResetAllOp ==
  Operated("resetAll", "", Store_resetAll(Cur, "none").S, Undefined,
           [hist EXCEPT !.latest = EmptyMap, !.armedSince = {}])

(* SpecOps: set, get, increment, decrement, reset and resetAll of each     *)
(* store on one key, the clock and the expiry timers.                      *)
\* a new process with one of these stores, and the keys callers will use
InitOpsOn(stores, keys) ==
  /\ now = 1
  /\ mem = EmptyMap
  /\ timers = EmptyMap
  /\ sched = {}
  /\ db = EmptyMap
  /\ last = Idle("init")
  /\ hist = NoWrites
  /\ calls = EmptyMap
  /\ cfg \in [algorithm : {"fixed-window"},
              store : stores,
              max : {Num(1)},
              windowMs : {2},
              capacity : {0},
              callCapacities : {{0}},
              keys : {keys}]

InitOps == InitOpsOn({"memory", "redis"}, {"a"})

NextOps ==
  \/ SetOp \/ GetOp \/ IncrementOp \/ DecrementOp \/ ResetOp \/ ResetAllOp
  \/ Tick \/ TimerFire

SpecOps == InitOps /\ [][NextOps]_vars

(* SpecReset: set, reset and resetAll of the in-process store on two keys, *)
(* the clock and the expiry timers.                                        *)
InitReset == InitOpsOn({"memory"}, {"a", "b"})

NextReset == SetOp \/ ResetOp \/ ResetAllOp \/ Tick \/ TimerFire

SpecReset == InitReset /\ [][NextReset]_vars

(* SpecTtl: get, increment and decrement of each store on one key, the     *)
(* clock and the expiry timers: every counter comes from increment.        *)
NextTtl == GetOp \/ IncrementOp \/ DecrementOp \/ Tick \/ TimerFire

SpecTtl == InitOps /\ [][NextTtl]_vars

(* SpecRead: checks over the remote store during which the client's GET   *)
(* fails or not, for the algorithms that read the record with store.get;   *)
(* last.fault is what failed during the check.                             *)
ReadCheck_returned(key, fault, out, d) ==
  /\ SetStore(out.S)
  /\ last' = SetField([Idle("check") EXCEPT !.key = key, !.dec = out.dec,
                                            !.raised = out.raised],
                      "fault", fault)
  /\ now' = now + d

ReadCheck ==
  \E key \in cfg.keys, opts \in CallOpts, fault \in {"none", "get"}, d \in 0..MaxDelay :
    /\ now + d <= MaxTime
    /\ RecordSize(key) < MaxCount
    /\ ReadCheck_returned(key, fault, RateLimiter_check(Cur, key, opts, fault, now, d), d)
    /\ UNCHANGED <<cfg, hist, calls>>

InitRead ==
  /\ InitStore
  /\ cfg \in [algorithm : {"sliding-window", "token-bucket", "leaky-bucket"},
              store : {"redis"},
              max : {Num(2)},
              windowMs : {1, 2},
              capacity : {0},
              callCapacities : {{2}},
              keys : {{"a"}}]

NextRead == ReadCheck \/ Tick

SpecRead == InitRead /\ [][NextRead]_vars

----------------------------------------------------------------------------
(* The middleware.  A request is [ip, path]; the default keyGenerator      *)
(* answers req.ip.  cfg.skip, when the configuration has one, is the path  *)
(* for which the skip predicate answers true (skip: (req) => req.path ===  *)
(* cfg.skip); the default predicate answers false.                         *)

Skip(req) == HasField(cfg, "skip") /\ req.path = cfg.skip
KeyGenerator(req) == req.ip

\* what the middleware did: the store it left, what it called (next(), or
\* next(error) after the 429 response), the status sent (0: none), the
\* Decision of its check
Handled(S, called, status, dec, skipped) ==
  [S |-> S, called |-> called, status |-> status, dec |-> dec, skipped |-> skipped]

\* RateLimiter_middleware_done for a middleware that looks at the skip
\* predicate only after its check
RateLimiter_middleware_skipLate(req, out) ==
  IF out.threw # "" THEN Handled(out.S, "next", 0, NoDecision, FALSE)
  ELSE IF Skip(req) THEN Handled(out.S, "next", 0, NoDecision, TRUE)
  ELSE IF ~out.dec.allowed THEN Handled(out.S, "nextError", 429, out.dec, FALSE)
  ELSE Handled(out.S, "next", 0, out.dec, FALSE)

\* the middleware after skip answered false: out is what check returned; a
\* rejection of check is caught and the request goes on
RateLimiter_middleware_done(req, out) ==
  IF out.threw # "" THEN Handled(out.S, "next", 0, NoDecision, FALSE)
  ELSE IF ~out.dec.allowed THEN Handled(out.S, "nextError", 429, out.dec, FALSE)
  ELSE Handled(out.S, "next", 0, out.dec, FALSE)

\* RateLimiter_middleware with the skip predicate looked at after the check
RateLimiter_middleware_checkFirst(S, req, fault, t, d) ==
  RateLimiter_middleware_skipLate(req,
    RateLimiter_check(S, KeyGenerator(req), [req |-> req, capacity |-> 0], fault, t, d))

\* the function middleware() returns, called with req (no custom handler)
RateLimiter_middleware(S, req, fault, t, d) ==
  IF Skip(req) THEN Handled(S, "next", 0, NoDecision, TRUE)
  ELSE RateLimiter_middleware_done(req,
         RateLimiter_check(S, KeyGenerator(req), [req |-> req, capacity |-> 0],
                           fault, t, d))

Paths == {"/health", "/api"}

MiddlewareCall_returned(req, r, d) ==
  /\ SetStore(r.S)
  /\ last' = [op |-> "middleware", key |-> req.ip, path |-> req.path,
              called |-> r.called, status |-> r.status, dec |-> r.dec,
              skipped |-> r.skipped]
  /\ now' = IF r.skipped THEN now ELSE now + d
  /\ UNCHANGED <<cfg, hist, calls>>

MiddlewareCall ==
  \E ip \in cfg.keys, path \in Paths, fault \in Faults, d \in 0..MaxDelay :
    /\ now + d <= MaxTime
    /\ RecordSize(ip) < MaxCount
    /\ MiddlewareCall_returned([ip |-> ip, path |-> path],
         RateLimiter_middleware(Cur, [ip |-> ip, path |-> path], fault, now, d), d)

(* SpecMw: requests through the middleware of a Limiter with a skip        *)
(* predicate, the window algorithms over both stores, the clock and the    *)
(* expiry timers.                                                          *)
InitMw ==
  /\ InitStore
  /\ cfg \in [algorithm : {"sliding-window", "fixed-window"},
              store : {"memory", "redis"},
              max : {Num(1)},
              windowMs : {3},
              capacity : {0},
              callCapacities : {{0}},
              keys : {{"a"}},
              skip : {"/health"}]

NextMw == MiddlewareCall \/ Tick \/ TimerFire

SpecMw == InitMw /\ [][NextMw]_vars

(* The middleware among objects that can throw.  The caller's side of a    *)
(* request is env = [res, handler, next]:                                  *)
(*   res:     "ok", "setHeaderThrows" (res.setHeader throws) or            *)
(*            "jsonThrows" (res.status(429).json throws);                  *)
(*   handler: "none" (options.handler is null), "responds" (it answers and *)
(*            calls nothing) or "throws" (it throws before it returns);    *)
(*   next:    "ok" or "throws" (the call of next throws).                  *)
(* What the middleware did is [S, nexts, dec, skipped, rejected]: nexts is *)
(* the sequence of its invocations of next ("next" without an argument,    *)
(* "nextError" with the error), rejected whether the promise it returned   *)
(* rejects.                                                                *)
Envs ==
  [res : {"ok", "setHeaderThrows", "jsonThrows"},
   handler : {"none", "responds", "throws"},
   next : {"ok", "throws"}]

Invoked(S, nexts, dec, skipped, rejected) ==
  [S |-> S, nexts |-> nexts, dec |-> dec, skipped |-> skipped, rejected |-> rejected]

\* the catch block, after the try block made the invocations nexts
RateLimiter_middleware_catch(S, nexts, dec, skipped, env) ==
  Invoked(S, Append(nexts, "next"), dec, skipped, env.next = "throws")

\* the try block from the call of next on: arg is "next" or "nextError"
RateLimiter_middleware_next(S, arg, dec, skipped, env) ==
  IF env.next = "throws"
  THEN RateLimiter_middleware_catch(S, <<arg>>, dec, skipped, env)
  ELSE Invoked(S, <<arg>>, dec, skipped, FALSE)

\* the try block after check returned out: the headers, then the denial
RateLimiter_middleware_respond(out, env) ==
  IF out.threw # "" \/ env.res = "setHeaderThrows"
  THEN RateLimiter_middleware_catch(out.S, <<>>, out.dec, FALSE, env)
  ELSE IF out.dec.allowed
  THEN RateLimiter_middleware_next(out.S, "next", out.dec, FALSE, env)
  ELSE IF env.handler = "throws"
  THEN RateLimiter_middleware_catch(out.S, <<>>, out.dec, FALSE, env)
  ELSE IF env.handler = "responds"
  THEN Invoked(out.S, <<>>, out.dec, FALSE, FALSE)
  ELSE IF env.res = "jsonThrows"
  THEN RateLimiter_middleware_catch(out.S, <<>>, out.dec, FALSE, env)
  ELSE RateLimiter_middleware_next(out.S, "nextError", out.dec, FALSE, env)

\* the function middleware() returns, called with req, res and next of env
RateLimiter_middleware_env(S, req, fault, t, d, env) ==
  IF Skip(req) THEN RateLimiter_middleware_next(S, "next", NoDecision, TRUE, env)
  ELSE RateLimiter_middleware_respond(
         RateLimiter_check(S, KeyGenerator(req), [req |-> req, capacity |-> 0],
                           fault, t, d),
         env)

MiddlewareEnvCall_returned(req, env, r, d) ==
  /\ SetStore(r.S)
  /\ last' = [op |-> "middleware", key |-> req.ip, path |-> req.path, env |-> env,
              nexts |-> r.nexts, dec |-> r.dec, skipped |-> r.skipped,
              rejected |-> r.rejected]
  /\ now' = IF r.skipped THEN now ELSE now + d
  /\ UNCHANGED <<cfg, hist, calls>>

MiddlewareEnvCall ==
  \E ip \in cfg.keys, path \in Paths, fault \in Faults, d \in 0..MaxDelay, env \in Envs :
    /\ now + d <= MaxTime
    /\ RecordSize(ip) < MaxCount
    /\ MiddlewareEnvCall_returned([ip |-> ip, path |-> path], env,
         RateLimiter_middleware_env(Cur, [ip |-> ip, path |-> path], fault, now, d, env),
         d)

(* SpecMwEnv: requests through the middleware with a response object, a    *)
(* custom handler and a next that throw or not.                            *)
InitMwEnv ==
  /\ InitStore
  /\ cfg \in [algorithm : {"fixed-window"},
              store : {"memory", "redis"},
              max : {Num(1)},
              windowMs : {3},
              capacity : {0},
              callCapacities : {{0}},
              keys : {{"a"}},
              skip : {"/health"}]

NextMwEnv == MiddlewareEnvCall \/ Tick \/ TimerFire

SpecMwEnv == InitMwEnv /\ [][NextMwEnv]_vars

(* The route-level limiter 'strict' of the examples: the handler builds a  *)
(* RateLimiter (and with it a MemoryStore) on every request and passes the *)
(* request to its middleware.  Nothing keeps that store for the next       *)
(* request.  In SpecStrict hist counts, per client, the requests made and  *)
(* the requests passed on with next().                                     *)

\* the store of a Limiter just built
NewStore == [mem |-> EmptyMap, timers |-> EmptyMap, sched |-> {}, db |-> EmptyMap]

NoRequests == [k \in cfg.keys |-> [requests |-> 0, admitted |-> 0]]

Counted(ip, r) ==
  [hist EXCEPT ![ip] = [requests |-> @.requests + 1,
                        admitted |-> @.admitted + (IF r.called = "next" THEN 1 ELSE 0)]]

StrictRequest_returned(ip, r) ==
  /\ last' = [op |-> "request", key |-> ip, called |-> r.called,
              status |-> r.status, dec |-> r.dec]
  /\ hist' = Counted(ip, r)
  /\ UNCHANGED <<cfg, now, mem, timers, sched, db, calls>>

StrictRequest ==
  \E ip \in cfg.keys :
    /\ hist[ip].requests < MaxRequests
    /\ StrictRequest_returned(ip,
         RateLimiter_middleware(NewStore, [ip |-> ip, path |-> "/api/login"],
                                "none", now, 0))

InitStrict ==
  /\ cfg \in [algorithm : {"sliding-window"},
              store : {"memory"},
              max : {Num(StrictMax)},
              windowMs : {StrictWindowMs},
              capacity : {0},
              callCapacities : {{0}},
              keys : {{"a", "b"}}]
  /\ now = 1
  /\ mem = EmptyMap
  /\ timers = EmptyMap
  /\ sched = {}
  /\ db = EmptyMap
  /\ last = Idle("init")
  /\ hist = NoRequests
  /\ calls = EmptyMap

NextStrict == StrictRequest \/ Tick

SpecStrict == InitStrict /\ [][NextStrict]_vars

----------------------------------------------------------------------------
(* Claims *)

\* calls hist[i] .. hist[j] lie in one window that starts with call i: for the
\* sliding window the windowMs after call i, for the fixed window the window
\* whose index call i computed; call j has returned (t2) inside it
SameWindow(i, j) ==
  IF cfg.algorithm = "fixed-window"
  THEN hist[j].t2 \div cfg.windowMs = hist[i].t \div cfg.windowMs
  ELSE hist[j].t2 < hist[i].t + cfg.windowMs

\* the index of call j among the calls on its key since call i
CallIndex(i, j) == Cardinality({m \in i..j : hist[m].key = hist[j].key})

\* C1: fixed or sliding window, static limit L, in-process store, sequential
\* calls on one key inside one window starting from no record: call n <= L
\* returns allowed, current = n, remaining = L - n; call L + 1 returns
\* allowed = false, remaining = 0, retryAfter > 0.
C1_MonotonicDenial ==
  \A i \in 1..Len(hist) : \A j \in i..Len(hist) :
    (hist[i].key = hist[j].key /\ hist[i].fresh /\ SameWindow(i, j)) =>
      /\ CallIndex(i, j) <= cfg.max.num =>
           /\ hist[j].allowed
           /\ hist[j].current = Fx(CallIndex(i, j))
           /\ hist[j].remaining = Num(Fx(cfg.max.num - CallIndex(i, j)))
      /\ CallIndex(i, j) = cfg.max.num + 1 =>
           /\ ~hist[j].allowed
           /\ hist[j].remaining = Num(0)
           /\ hist[j].retryAfter > 0

\* call L + 1 of a window was made after L admitted calls, and was denied
C1_Witness ==
  \E i \in 1..Len(hist) : \E j \in i..Len(hist) :
    /\ hist[i].key = hist[j].key /\ hist[i].fresh /\ SameWindow(i, j)
    /\ cfg.max.num = 2
    /\ CallIndex(i, j) = cfg.max.num + 1
    /\ ~hist[j].allowed

\* the admitted calls on key k whose timestamps lie in (t - windowMs, t]
AdmittedIn(k, t) ==
  {i \in 1..Len(hist) : /\ hist[i].key = k
                        /\ hist[i].allowed
                        /\ hist[i].t > t - cfg.windowMs
                        /\ hist[i].t <= t}

\* C2: sliding window, in-process store, sequential calls: for every key and
\* every time t, at most L of the calls with timestamps in (t - windowMs, t]
\* were admitted.
C2_SlidingExact ==
  cfg.algorithm = "sliding-window" =>
    \A k \in cfg.keys : \A t \in 1..MaxTime :
      Cardinality(AdmittedIn(k, t)) <= cfg.max.num

\* a key was admitted, denied inside the window, and admitted again once the
\* window had slid past the admitted call
C2_Witness ==
  /\ cfg.algorithm = "sliding-window"
  /\ \E i, j, k \in 1..Len(hist) :
       /\ i < j /\ j < k
       /\ hist[i].key = hist[j].key /\ hist[j].key = hist[k].key
       /\ hist[i].allowed /\ ~hist[j].allowed /\ hist[k].allowed
       /\ hist[k].t >= hist[i].t + cfg.windowMs

\* C3: for each algorithm, reset(k) followed immediately by check(k) returns
\* current = 1 and allowed = true, whatever preceded (no store fault in either).
C3_ResetThenCheck ==
  (/\ last.op = "check" /\ last.raised = ""
   /\ last.prevOp = "reset" /\ last.prevKey = last.key)
    => (last.dec.current = Fx(1) /\ last.dec.allowed)

\* the store keys that hold the record of key k, and what is persisted there
OwnStoreKeys(k) ==
  IF cfg.algorithm = "fixed-window"
  THEN {k \o ":" \o ToString(i) : i \in 0..(MaxTime \div cfg.windowMs)}
  ELSE {k}
Persisted(k) ==
  [sk \in OwnStoreKeys(k) |->
     [mem |-> MapGet(mem, sk),
      entry |-> MapGet(db, RedisStore_getKey(sk)),
      scores |-> IF cfg.algorithm = "sliding-window"
                 THEN MapGet(db, ScoresKey(RedisStore_getKey(sk)))
                 ELSE Undefined]]
\* current and remaining of a check(k) made on store S at time t
WouldReturn(S, k, t) ==
  LET o == [req |-> [isPremium |-> FALSE], capacity |-> CHOOSE c \in cfg.callCapacities : TRUE]
  IN RateLimiter_check(S, k, o, "none", t, 0).dec

\* C4: for distinct keys k1 # k2, no check(k1) or reset(k1) changes the
\* persisted record of k2, nor the current/remaining the next check(k2) returns.
C4_KeyIndependence ==
  [][(last'.op \in {"check", "reset"}) =>
       \A k2 \in cfg.keys \ {last'.key} :
         /\ Persisted(k2)' = Persisted(k2)
         /\ WouldReturn(Cur', k2, now').current = WouldReturn(Cur, k2, now').current
         /\ WouldReturn(Cur', k2, now').remaining = WouldReturn(Cur, k2, now').remaining]_vars

C6_SentinelDenies ==
  (last.op = "check" /\ last.raised = "" /\ last.capacity # 0) =>
    /\ last.over => ~last.dec.allowed
    /\ last.dec.limit = Num(Fx(last.capacity))

\* C7: token bucket with capacity C = limit, from no record, no time passing
\* between the calls: calls 1..C return allowed with current = 1..C, call
\* C + 1 returns current = C + 1 and allowed = false.
C7_TokenBucketBurst ==
  \A i \in 1..Len(hist) : \A j \in i..Len(hist) :
    (/\ hist[i].key = hist[j].key /\ hist[i].fresh
     /\ hist[j].t = hist[i].t
     /\ hist[j].limit = Num(Fx(hist[j].capacity))) =>
      /\ CallIndex(i, j) <= hist[j].capacity =>
           hist[j].allowed /\ hist[j].current = Fx(CallIndex(i, j))
      /\ CallIndex(i, j) = hist[j].capacity + 1 =>
           ~hist[j].allowed /\ hist[j].current = Fx(hist[j].capacity + 1)

\* with capacity 2: the third call of a burst, denied with current = 3
C7_Witness ==
  \E i \in 1..Len(hist) : \E j \in i..Len(hist) :
    /\ hist[i].key = hist[j].key /\ hist[i].fresh
    /\ hist[j].t = hist[i].t
    /\ hist[j].capacity = 2 /\ hist[j].limit = Num(Fx(2))
    /\ CallIndex(i, j) = 3
    /\ ~hist[j].allowed /\ hist[j].current = Fx(3)

\* C8: token bucket with capacity C: every Decision with allowed = false has
\* current = C + 1 and comes from the sentinel branch, not from a branch that
\* consumed a token.
C8_DenialIsSentinel ==
  (/\ cfg.algorithm = "token-bucket"
   /\ last.op = "check" /\ last.raised = ""
   /\ ~last.dec.allowed) =>
    (last.over /\ last.dec.current = Fx(last.capacity + 1))

\* the capacity the algorithm uses under this configuration
CfgCapacity == OptCapacity([capacity |-> CHOOSE c \in cfg.callCapacities : TRUE])

\* C9: token bucket with capacity C: the tokens persisted for every key are
\* in 0..C in every reachable state, whatever idle time passes.
C9_TokensBounded ==
  cfg.algorithm = "token-bucket" =>
    \A k \in DOMAIN mem :
      HasField(mem[k], "tokens") =>
        (0 <= mem[k].tokens /\ mem[k].tokens <= Fx(CfgCapacity))

\* a check found a bucket that idle time had refilled to its capacity
C9_Witness ==
  /\ cfg.algorithm = "token-bucket"
  /\ last.op = "check" /\ ~last.fresh /\ last.prevOp = "tick"
  /\ last.dec.current = Fx(1)
  /\ mem[last.key].tokens = Fx(CfgCapacity) - Fx(1)
  /\ mem[last.key].lastRefill >= 4

\* C10: every Decision (normal or fail-open, static or dynamic quota) has a
\* numeric limit equal to the quota in force and a numeric remaining >= 0 with
\* remaining = max(0, limit - current).
C10_DecisionShape ==
  (last.op = "check" /\ last.threw = "") =>
    /\ IsNum(last.dec.limit)
    /\ last.quota # 0 => last.dec.limit = Num(Fx(last.quota))
    /\ IsNum(last.dec.remaining)
    /\ last.dec.remaining.num >= 0
    /\ last.dec.remaining.num = Max2(0, last.dec.limit.num - last.dec.current)

\* C11: for every Decision returned by check, under every algorithm and however
\* the clock advances between the algorithm's read of it and the Limiter's,
\* retryAfter > 0 exactly when allowed = false.
C11_RetryAfterIffDenied ==
  (last.op = "check" /\ last.threw = "") =>
    ((last.dec.retryAfter > 0) <=> ~last.dec.allowed)

\* the finished check calls on key k that were admitted and whose clock read
\* lies in the window of time t: the fixed window with t's index, or the
\* trailing interval (t - windowMs, t]
AdmittedCalls(k, t) ==
  {i \in DOMAIN calls :
     /\ calls[i].op = "check" /\ calls[i].pc = "done" /\ calls[i].key = k
     /\ calls[i].dec.allowed
     /\ IF cfg.algorithm = "fixed-window"
        THEN calls[i].t \div cfg.windowMs = t \div cfg.windowMs
        ELSE calls[i].t > t - cfg.windowMs /\ calls[i].t <= t}

\* C12: fixed or sliding window on the in-process store: under any
\* interleaving of in-flight check calls on one key at the store's suspension
\* points, at most L of the calls that fall in one window are admitted.
C12_NoRaceInProcess ==
  cfg.algorithm \in {"fixed-window", "sliding-window"} =>
    \A k \in cfg.keys : \A t \in 0..MaxTime :
      Cardinality(AdmittedCalls(k, t)) <= cfg.max.num

\* call i consumed from the bucket: it took the admission branch and wrote
Consumed(i) ==
  /\ calls[i].op = "check" /\ calls[i].pc \in {"afterWrite", "done"}
  /\ ~calls[i].res.over

\* calls i and j read the same record of one key at the same clock value and
\* both consumed, j after another call wrote what it had read
LostUpdate(i, j) ==
  /\ i # j /\ Consumed(i) /\ Consumed(j)
  /\ calls[i].key = calls[j].key
  /\ calls[i].seen = calls[j].seen /\ calls[i].t = calls[j].t
  /\ calls[j].raced

\* the level of a bucket record, and the level one admission leaves after the
\* record c read
Level(rec) == IF cfg.algorithm = "token-bucket" THEN rec.tokens ELSE rec.water
LevelAfterOne(c) ==
  IF cfg.algorithm = "token-bucket"
  THEN TokenBucket_refill(c.seen, OptCapacity(ConcOpts), DefaultRate, c.t) - Fx(1)
  ELSE LeakyBucket_leak(c.seen, DefaultRate, c.t) + Fx(1)

\* the count one admission reports after the record c read
CountAfterOne(c) ==
  IF cfg.algorithm = "token-bucket"
  THEN Fx(OptCapacity(ConcOpts)) - LevelAfterOne(c)
  ELSE LevelAfterOne(c)

\* the Decision of call i is that of the only admission after the record it read
DecidedAsOne(i) ==
  calls[i].pc = "done" =>
    /\ calls[i].dec.current = CountAfterOne(calls[i])
    /\ calls[i].dec.allowed = (CountAfterOne(calls[i]) <= Fx(cfg.max.num))

\* C13: token or leaky bucket: two overlapping check calls on one key that both
\* read the same pre-update record and both write are each decided as the one
\* admission after that record (so both are admitted when one would be), while
\* the persisted tokens (or level) change by only one unit; such an
\* interleaving is reachable.
C13_LostUpdate ==
  cfg.algorithm \in {"token-bucket", "leaky-bucket"} =>
    \A i, j \in DOMAIN calls :
      LostUpdate(i, j) =>
        /\ calls[j].wrote = calls[i].wrote
        /\ Level(calls[j].wrote) = LevelAfterOne(calls[j])
        /\ DecidedAsOne(i)
        /\ DecidedAsOne(j)

\* both calls of a lost update have returned, admitted, and the record persisted
\* is one unit from the record they read
C13_Witness ==
  /\ cfg.algorithm \in {"token-bucket", "leaky-bucket"}
  /\ \E i, j \in DOMAIN calls :
       /\ LostUpdate(i, j)
       /\ calls[i].pc = "done" /\ calls[j].pc = "done"
       /\ calls[i].dec.allowed /\ calls[j].dec.allowed
       /\ MapGet(mem, calls[j].key) = calls[j].wrote
       /\ Level(calls[j].wrote) = LevelAfterOne(calls[j])

\* the counter the remote store holds for key k is alive at time t
LiveCounter(d, k, t) ==
  /\ Live(d, RedisStore_getKey(k), t)
  /\ d[RedisStore_getKey(k)].type = "string"
  /\ HasField(d[RedisStore_getKey(k)].val, "int")

\* during a step the counter of k stays alive and its expiry is not set again
ExpiryKept(k) ==
  (/\ LiveCounter(db, k, now) /\ LiveCounter(db', k, now')
   /\ db[RedisStore_getKey(k)].exp # NoExp) =>
    db'[RedisStore_getKey(k)].exp = db[RedisStore_getKey(k)].exp

\* C14: remote store, counter mode: under any interleaving of increment and
\* decrement calls on one key the TTL is set exactly once per key lifetime: with
\* no call in flight a live counter has an expiry, and no later increment sets
\* the expiry again.
C14_ExpiryOnce ==
  /\ [](cfg.store = "redis" =>
         \A k \in cfg.keys :
           (LiveCounter(db, k, now) /\ \A i \in DOMAIN calls : ~InFlight(calls[i])) =>
             db[RedisStore_getKey(k)].exp # NoExp)
  /\ [][cfg.store = "redis" => \A k \in cfg.keys : ExpiryKept(k)]_vars

\* C16: both stores: under any interleaving of increment and decrement calls
\* on one key (two decrements in flight at once included) the stored counter is
\* never negative.
C16_CounterNonNegative ==
  \A k \in cfg.keys :
    /\ HasField(MapGet(mem, k), "count") => mem[k].count >= 0
    /\ LiveCounter(db, k, now) => db[RedisStore_getKey(k)].val.int >= 0

\* every increment made so far carried a timestamp
TimestampModeOnly ==
  \A j \in DOMAIN calls : calls[j].op = "increment" => calls[j].ts # 0

\* C17: both stores: decrement(key) on a key that holds timestamps written by
\* increment (and nothing else) removes exactly one entry, the most recent one
\* (no other call in flight meanwhile).
C17_DecrementPopsLatest ==
  TimestampModeOnly =>
    \A i \in DOMAIN calls :
      (/\ calls[i].op = "decrement" /\ calls[i].pc = "done" /\ ~calls[i].raced
       /\ Len(calls[i].seen) > 0) =>
        calls[i].wrote = SubSeq(calls[i].seen, 1, Len(calls[i].seen) - 1)

\* no logged call met a store fault
NoFaultLogged == \A i \in 1..Len(hist) : hist[i].error = ""

\* the calls up to call j on its key whose clock read lies in the trailing
\* window of call j
InTrailingWindow(j) ==
  {i \in 1..j : hist[i].key = hist[j].key /\ hist[i].t > hist[j].t - cfg.windowMs}

\* C15: sliding window, sequential check calls and time advances on one key:
\* the remote store gives the same count and the same allowed as the in-process
\* store, which counts the calls of the trailing window; call L + 1 inside one
\* window is denied.
C15_RemoteSameAsInProcess ==
  (cfg.algorithm = "sliding-window" /\ NoFaultLogged) =>
    \A j \in 1..Len(hist) :
      /\ hist[j].current = Fx(Cardinality(InTrailingWindow(j)))
      /\ hist[j].allowed = (Cardinality(InTrailingWindow(j)) <= cfg.max.num)

\* the calls up to call j on its key made in the fixed window of call j
InFixedWindow(j) ==
  {i \in 1..j : /\ hist[i].key = hist[j].key
                /\ hist[i].t \div cfg.windowMs = hist[j].t \div cfg.windowMs}

\* C18: fixed window, sequential calls: the count of check(k) at time t is the
\* number of checks of k made in the window floor(t / windowMs) only (so the
\* first check of a new window returns 1), and resetTime = (index + 1) * windowMs.
C18_FixedWindowCount ==
  (cfg.algorithm = "fixed-window" /\ NoFaultLogged) =>
    \A j \in 1..Len(hist) :
      /\ hist[j].current = Fx(Cardinality(InFixedWindow(j)))
      /\ hist[j].resetTime = (hist[j].t \div cfg.windowMs + 1) * cfg.windowMs

\* a key checked in one window is checked in the next and counted from 1
C18_Witness ==
  /\ cfg.algorithm = "fixed-window" /\ NoFaultLogged
  /\ \E i, j \in 1..Len(hist) :
       /\ i < j /\ hist[i].key = hist[j].key
       /\ hist[i].t \div cfg.windowMs < hist[j].t \div cfg.windowMs
       /\ hist[j].current = Fx(1)
       /\ hist[j].resetTime = (hist[j].t \div cfg.windowMs + 1) * cfg.windowMs

\* the admitted calls on key k whose clock reads lie in the span [t, t + windowMs)
AdmittedInSpan(k, t) ==
  {i \in 1..Len(hist) : /\ hist[i].key = k /\ hist[i].allowed
                        /\ hist[i].t >= t /\ hist[i].t < t + cfg.windowMs}

\* C19: fixed window, limit L, sequential calls on one key: no span shorter
\* than windowMs holds more than 2L admissions (and 2L are reachable, L at the
\* end of one window and L at the start of the next).
C19_BoundaryBurst ==
  (cfg.algorithm = "fixed-window" /\ NoFaultLogged) =>
    \A k \in cfg.keys : \A t \in 0..MaxTime :
      Cardinality(AdmittedInSpan(k, t)) <= 2 * cfg.max.num

\* 2L admissions in a span shorter than windowMs, across a window boundary
C19_Witness ==
  /\ cfg.algorithm = "fixed-window" /\ NoFaultLogged
  /\ \E k \in cfg.keys : \E t \in 0..MaxTime :
       /\ Cardinality(AdmittedInSpan(k, t)) = 2 * cfg.max.num
       /\ \E i, j \in AdmittedInSpan(k, t) :
            hist[i].t \div cfg.windowMs < hist[j].t \div cfg.windowMs

\* a positive number: NaN, strings, undefined and null are not
PositiveNumber(v) == IsNum(v) /\ v.num > 0

\* an option the configuration rules reject
InvalidConfig(config) ==
  \/ ~PositiveNumber(config.windowMs)
  \/ ~(PositiveNumber(config.max) \/ IsFn(config.max))
  \/ ~(IsStr(config.algorithm) /\ config.algorithm.str \in Algorithms)

\* C20: new RateLimiter(options) throws a configuration error whenever windowMs
\* is not a positive number, max is neither a positive number nor a function,
\* or algorithm is not one of the four names; then no Limiter and no Store is
\* created.
C20_InvalidOptionsThrow ==
  (last.op = "construct" /\ InvalidConfig(ConfigOf(cfg))) =>
    (last.threw # "" /\ ~last.limiter /\ last.store = "")

\* the operations of the Store contract the algorithms and the engine use
StoreContract == {"get", "set", "increment", "decrement", "reset"}

\* C21: constructing a Limiter with a store object that lacks an operation of
\* the Store contract (get, set, increment, decrement, reset) throws a
\* configuration error, so a Limiter is never built over such a store.
C21_StoreContractChecked ==
  (last.op = "construct" /\ IsObj(ConfigOf(cfg).store)
     /\ ~(StoreContract \subseteq ConfigOf(cfg).store.methods)) =>
    (last.threw # "" /\ ~last.limiter)

\* a key that is empty or not a string
InvalidKey(v) == ~IsStr(v) \/ v = Str("")

\* C22: check(key) and reset(key) with an empty or non-string key fail with the
\* key error, which is not turned into a fail-open Decision, and they perform
\* no Store operation: every record is unchanged.
C22_InvalidKeyRejected ==
  [][(last'.op \in {"check", "reset"} /\ InvalidKey(last'.arg)) =>
       /\ last'.threw = KeyError
       /\ last'.dec = NoDecision
       /\ UNCHANGED <<mem, timers, sched, db>>]_vars

\* a check with an invalid key was rejected while the store holds records
C22_Witness ==
  /\ last.op = "check" /\ InvalidKey(last.arg)
  /\ last.threw = KeyError /\ last.dec = NoDecision
  /\ (DOMAIN mem) \cup (DOMAIN db) # {}

\* C23: when max is a function, a check call that got a value from it returns
\* a Decision whose limit is that value and whose allowed is computed against
\* that same value.
C23_DynamicLimit ==
  (last.op = "check" /\ last.threw = "" /\ IsFn(cfg.max) /\ last.quota # 0) =>
    /\ last.dec.limit = Num(Fx(last.quota))
    /\ last.dec.allowed = (last.dec.current <= Fx(last.quota))

\* C24: a token- or leaky-bucket Limiter built with a capacity computes with
\* exactly that capacity in every check (the call giving none of its own), and
\* with the default only when the constructor gave none.
C24_ConstructorCapacityApplied ==
  (/\ cfg.algorithm \in {"token-bucket", "leaky-bucket"}
   /\ last.op = "check" /\ last.raised = ""
   /\ cfg.callCapacities = {0}) =>
    last.capacity = (IF cfg.capacity # 0 THEN cfg.capacity ELSE DefaultCapacity)

\* C25: on both stores, after set(key, value, ttl) at time t with no later
\* write to the key, get(key) returns none at every time >= t + ttl and the
\* value at every time before t + ttl.
C25_TtlExpiry ==
  (last.op = "get" /\ last.key \in DOMAIN hist.latest) =>
    (IF now >= hist.latest[last.key].t + hist.latest[last.key].ttl
     THEN last.ret = Undefined
     ELSE last.ret = hist.latest[last.key].value)

\* the pending timers of key k
Pending(k) == {tm \in sched : tm.key = k}

\* C26: in the in-process store, after any sequence of set, increment,
\* decrement, reset, resetAll and timer firings, every key has at most one
\* pending expiry timer, and it is the one the most recent set with a ttl on
\* the key created.
C26_OnePendingTimer ==
  cfg.store = "memory" =>
    \A k \in cfg.keys :
      /\ Cardinality(Pending(k)) <= 1
      /\ \A tm \in Pending(k) : k \in DOMAIN hist.armed /\ tm.due = hist.armed[k]

\* a set with a ttl replaced the pending timer of an earlier set on the key
C26_Witness ==
  /\ cfg.store = "memory"
  /\ last.op = "set" /\ last.key \in DOMAIN hist.latest
  /\ hist.latest[last.key].t > 1
  /\ Pending(last.key) = {[key |-> last.key, due |-> now + hist.latest[last.key].ttl]}
  /\ hist.latest[last.key].ttl = 1

\* C27: in the in-process store, after reset(key) no expiry timer scheduled
\* before it for the key is pending, and after resetAll() none for any key:
\* every pending timer was scheduled by a set made after the last reset of
\* its key, so no record written after a reset is deleted by an older timer.
C27_NoTimerOutlivesReset ==
  /\ [](\A tm \in sched : tm.key \in hist.armedSince)
  /\ [][/\ last'.op = "reset" => {tm \in sched' : tm.key = last'.key} = {}
        /\ last'.op = "resetAll" => sched' = {}]_vars

\* reset cancelled the pending timer of the key while the other key's timer
\* stays pending
C27_Witness ==
  /\ last.op = "reset"
  /\ last.key \in DOMAIN hist.armed /\ hist.armed[last.key] > now
  /\ Pending(last.key) = {}
  /\ sched # {}

\* C28: after Limiter.resetAll() on the in-process store, for every algorithm,
\* the next check(key) returns current = 1, whatever checks preceded: resetAll
\* leaves no record and no pending timer, and a check that finds no record of
\* its key (in particular the check right after resetAll) returns current = 1.
C28_ResetAllThenCheck ==
  cfg.store = "memory" =>
    /\ last.op = "resetAll" => (mem = EmptyMap /\ sched = {})
    /\ (last.op = "check" /\ last.raised = ""
          /\ (last.fresh \/ last.prevOp = "resetAll")) =>
         last.dec.current = Fx(1)

\* the check right after a resetAll returned current = 1 under the fixed
\* window, and the record it wrote is the only one
C28_Witness ==
  /\ cfg.store = "memory" /\ cfg.algorithm = "fixed-window"
  /\ last.op = "check" /\ last.raised = "" /\ last.prevOp = "resetAll"
  /\ last.dec.current = Fx(1)
  /\ now > 1
  /\ Cardinality(DOMAIN mem) = 1

\* C29: the route-level limiter 'strict' of the examples (windowMs 15 minutes,
\* max 5, default store, built inside the handler on every request) admits at
\* most 5 requests of a client in a 15-minute window and rejects the 6th.
C29_StrictRouteLimit ==
  \A k \in cfg.keys :
    /\ hist[k].admitted <= StrictMax
    /\ (last.op = "request" /\ last.key = k /\ hist[k].requests = StrictMax + 1) =>
         (last.called = "nextError" /\ last.status = 429)

NextOnKey(i, j) ==
  /\ i < j /\ hist[i].key = hist[j].key
  /\ \A m \in (i + 1)..(j - 1) : hist[m].key # hist[i].key

\* C31: sequential calls: when check(k) is denied with reset time R and the
\* next check of k is made at time R or later, that check is allowed.
C31_AdmittedAtResetTime ==
  \A i \in 1..Len(hist) : \A j \in 1..Len(hist) :
    (/\ NextOnKey(i, j)
     /\ hist[i].error = "" /\ hist[j].error = ""
     /\ ~hist[i].allowed
     /\ hist[j].t >= hist[i].resetTime) => hist[j].allowed

\* the logged checks on key k that were allowed
AllowedChecks(k) == {i \in 1..Len(hist) : hist[i].key = k /\ hist[i].allowed}

\* C32: sliding window: the timestamp list persisted for a key holds only
\* timestamps of checks that returned allowed = true; a denied check adds no
\* entry.
C32_OnlyAdmittedRecorded ==
  (cfg.algorithm = "sliding-window" /\ NoFaultLogged) =>
    \A k \in cfg.keys :
      (k \in DOMAIN mem /\ HasField(mem[k], "requests")) =>
        Len(mem[k].requests) <= Cardinality(AllowedChecks(k))


\* the increment calls on key k, counter mode, that began at clock value t with
\* another call in flight during them, and have returned without an error
OverlappedIncrements(k, t) ==
  {i \in DOMAIN calls :
     /\ calls[i].op = "increment" /\ calls[i].pc = "done" /\ calls[i].ts = 0
     /\ calls[i].key = k /\ calls[i].t = t
     /\ calls[i].raced /\ calls[i].res.err = ""}

\* the counts a set of calls returned
CountsOf(G) == {calls[i].res.count : i \in G}

\* C33: in-process store: increment calls on one key that are in flight at the
\* same time return pairwise distinct consecutive counts, as sequential calls
\* do (no decrement being called).
C33_DistinctCounts ==
  (cfg.store = "memory" /\ \A m \in DOMAIN calls : calls[m].op # "decrement") =>
    \A k \in cfg.keys : \A t \in 0..MaxTime :
      /\ Cardinality(CountsOf(OverlappedIncrements(k, t)))
           = Cardinality(OverlappedIncrements(k, t))
      /\ \A c, d \in CountsOf(OverlappedIncrements(k, t)) :
           c - d < Cardinality(OverlappedIncrements(k, t))


\* the in-process store holds a counter for k
MemoryCounter(m, k) == HasField(MapGet(m, k), "count")

\* during a step the counter of k stays in the in-process store with a timer
\* pending, and the timer that will delete it stays the one that was pending
TimerKept(k) ==
  (/\ MemoryCounter(mem, k) /\ MemoryCounter(mem', k)
   /\ Pending(k) # {} /\ {tm \in sched' : tm.key = k} # {}) =>
    {tm \in sched' : tm.key = k} = Pending(k)

\* C34: both stores: a counter gets its TTL on the first increment only; an
\* increment or a decrement of the live key leaves the time at which the key
\* expires as it was.
C34_TtlFirstIncrementOnly ==
  [][last'.op \in {"increment", "decrement"} =>
       IF cfg.store = "redis" THEN ExpiryKept(last'.key) ELSE TimerKept(last'.key)]_vars


\* C35: remote store: a check during which the read of the record fails leaves
\* the live record of the key as it was.
C35_ReadFaultKeepsRecord ==
  [][(/\ last'.op = "check" /\ last'.fault = "get"
      /\ Live(db, RedisStore_getKey(last'.key), now)) =>
       /\ RedisStore_getKey(last'.key) \in DOMAIN db'
       /\ db'[RedisStore_getKey(last'.key)] = db[RedisStore_getKey(last'.key)]]_vars


\* C36: leaky bucket with capacity C: the level persisted for a key is between
\* 0 and C after every check, whatever the time between checks, and a check
\* that adds a unit of water reports a count of at most C.
C36_LevelWithinCapacity ==
  (cfg.algorithm = "leaky-bucket" /\ last.op = "check" /\ last.raised = "") =>
    /\ HasField(MapGet(mem, last.key), "water") =>
         /\ mem[last.key].water >= 0
         /\ mem[last.key].water <= Fx(last.capacity)
    /\ ~last.over => last.dec.current <= Fx(last.capacity)


\* C37: token bucket and leaky bucket: a check that returns allowed = false
\* writes nothing: the record of its key is after the call what it was before.
C37_DeniedWritesNothing ==
  [][(/\ cfg.algorithm \in {"token-bucket", "leaky-bucket"}
      /\ last'.op = "check" /\ last'.raised = "" /\ ~last'.dec.allowed) =>
       MapGet(mem', last'.key) = MapGet(mem, last'.key)]_vars


\* C38: for every request the middleware invokes next at most once, and it
\* invokes next without an error only if the request was skipped or check
\* returned allowed (as it does when limiting fails), also when the response
\* object, the custom handler or next throws.
C38_NextOnceAndNeverForDenied ==
  last.op = "middleware" =>
    /\ Len(last.nexts) <= 1
    /\ \A i \in 1..Len(last.nexts) :
         last.nexts[i] = "next" =>
           \/ last.skipped
           \/ last.dec # NoDecision /\ last.dec.allowed

====
